---- MODULE Spec2Model ----
(***************************************************************************)
(* A model of the data store of dynemo/data/io.py: the class IO (open =    *)
(* IO.__init__, load_raw_data, validate_data, load_preparation, and the    *)
(* methods delete_dir, delete_io_memmaps and save) and the module          *)
(* functions file_ext, list_dir, load_data, load_matlab, loadmat.          *)
(*                                                                         *)
(* Python strings are sequences of one-character strings, so that          *)
(* os.path.splitext, sorted(), the "in" substring test and the formatting  *)
(* of file names and error messages are computed, not assumed.             *)
(*                                                                         *)
(* Three more objects have a state machine of their own, each with its     *)
(* specification: reinitialize_model_weights of                            *)
(* osl_dynamics/inference/initializers.py (SpecWeights), the class Data of *)
(* vrad/data/_base.py (SpecData), and the classes Trainer and              *)
(* AnnealingTrainer of taser/training/trainers.py (SpecTraining).          *)
(* SpecShared has two stores share one store directory.                    *)
(***************************************************************************)
EXTENDS Integers, Sequences, FiniteSets, TLC

\* ------------------------------------------------------------------ bounds
\* Largest channel count of an in-memory array or of the .mat test files.
MaxChan == 2
\* Longest list descriptor passed to IO.__init__.
MaxList == 2
\* Largest leading length of a 1-D or 3-D array descriptor.
MaxLead == 2
\* The subject count of the one large store: more subjects than one digit
\* numbers.
ManySubjects == 11

\* ------------------------------------------------------------------ text
\* The characters used, in code-point order (Python compares str by code point).
Alphabet ==
  << " ", "'", ",", ".", "/", "0", "1", "2", "3", "4", "5", "6", "7", "8", "9",
     ":", "A", "B", "D", "E", "F", "H", "L", "M", "N", "P", "S", "T", "X", "Y",
     "[", "]", "_", "a", "b", "c", "d", "e", "f", "g", "h", "i", "j", "k", "l",
     "m", "n", "o", "p", "q", "r", "s", "t", "u", "v", "w", "x", "y", "z" >>

Ord(c) == CHOOSE i \in 1..Len(Alphabet) : Alphabet[i] = c

\* a < b for Python str: the first differing character decides, a proper
\* prefix is smaller.
RECURSIVE StrLessFrom(_, _, _)
StrLessFrom(a, b, i) ==
  IF i > Len(b) THEN FALSE
  ELSE IF i > Len(a) THEN TRUE
  ELSE IF a[i] # b[i] THEN Ord(a[i]) < Ord(b[i])
  ELSE StrLessFrom(a, b, i + 1)

StrLess(a, b) == StrLessFrom(a, b, 1)

\* sorted(S) for a set of distinct str.
RECURSIVE SortedInsert(_, _)
SortedInsert(x, s) ==
  IF s = << >> THEN <<x>>
  ELSE IF StrLess(x, Head(s)) THEN <<x>> \o s
  ELSE <<Head(s)>> \o SortedInsert(x, Tail(s))

RECURSIVE Sorted(_)
Sorted(S) ==
  IF S = {} THEN << >>
  ELSE LET x == CHOOSE x \in S : TRUE
       IN  SortedInsert(x, Sorted(S \ {x}))

\* needle in hay (Python's substring test).
Contains(hay, needle) ==
  \E i \in 1..(Len(hay) - Len(needle) + 1) :
     SubSeq(hay, i, i + Len(needle) - 1) = needle

EndsWith(s, suffix) ==
  /\ Len(suffix) <= Len(s)
  /\ SubSeq(s, Len(s) - Len(suffix) + 1, Len(s)) = suffix

\* str.rfind, 1-based, 0 when absent.
RFind(p, c) ==
  IF \E i \in 1..Len(p) : p[i] = c
  THEN CHOOSE i \in 1..Len(p) : p[i] = c /\ \A j \in (i + 1)..Len(p) : p[j] # c
  ELSE 0

\* str(n) for n >= 0.
RECURSIVE Str(_)
Str(n) ==
  IF n < 10 THEN << Alphabet[6 + n] >>
  ELSE Str(n \div 10) \o << Alphabet[6 + (n % 10)] >>

\* format(i, "0{width}d"): zero-padded to at least width digits.
RECURSIVE ZeroPad(_, _)
ZeroPad(s, width) == IF Len(s) >= width THEN s ELSE ZeroPad(<<"0">> \o s, width)

\* os.path.splitext(filename)[1]: from the last dot of the last path
\* component, unless only dots precede it in that component.
splitext_ext(p) ==
  LET sepIndex == RFind(p, "/")
      dotIndex == RFind(p, ".")
  IN  IF /\ dotIndex > sepIndex
         /\ \E i \in (sepIndex + 1)..(dotIndex - 1) : p[i] # "."
      THEN SubSeq(p, dotIndex, Len(p))
      ELSE << >>

\* A faulty variant of file_ext: everything from the first dot of the name.
file_ext_first_dot(filename) ==
  IF \E i \in 1..Len(filename) : filename[i] = "."
  THEN SubSeq(filename,
              CHOOSE i \in 1..Len(filename) :
                 filename[i] = "." /\ \A j \in 1..(i - 1) : filename[j] # ".",
              Len(filename))
  ELSE << >>

file_ext(filename) == splitext_ext(filename)

NPY == << ".", "n", "p", "y" >>
MAT == << ".", "m", "a", "t" >>
PREPARATION_PKL ==
  << "p", "r", "e", "p", "a", "r", "a", "t", "i", "o", "n", ".", "p", "k", "l" >>

\* ------------------------------------------------------------------ values
\* None, for an optional str (mmap_location).
None == << >>

\* A numpy array: its content (tag), shape and element type; file and mode
\* are set for a memory map (np.load(..., mmap_mode=...)) and empty otherwise.
Arr(tag, shape, dtype) ==
  [tag |-> tag, shape |-> shape, dtype |-> dtype, file |-> None, mode |-> ""]

NoArr == Arr(0, << >>, "none")

\* data.astype(np.float32)
astype_float32(a) == [a EXCEPT !.dtype = "float32"]

\* raw_data_mmap.T: the axes reversed.
Transpose(a) ==
  [a EXCEPT !.shape = [i \in 1..Len(a.shape) |-> a.shape[Len(a.shape) + 1 - i]]]

\* An exception: its class and str(exception).
Exc(type, msg) == [type |-> type, msg |-> msg]
NoErr == Exc("None", << >>)

\* The arguments IO.__init__, load_data and list_dir take: a str, an array,
\* a scalar (what iterating a 1-D array yields), a list of these, or
\* anything else.
StrVal(p) == [kind |-> "str", path |-> p, arr |-> NoArr, items |-> << >>]
ArrVal(a) == [kind |-> "array", path |-> None, arr |-> a, items |-> << >>]
ScalarVal == [kind |-> "scalar", path |-> None, arr |-> NoArr, items |-> << >>]
ListVal(l) == [kind |-> "list", path |-> None, arr |-> NoArr, items |-> l]
OtherVal == [kind |-> "other", path |-> None, arr |-> NoArr, items |-> << >>]

\* ------------------------------------------------------------- file system
\* The file system maps each existing path to a node: a directory, a .npy
\* file (one array), a MATLAB file (format generation and variables), a
\* preparation pickle, or any other file.
NoPrep == [n_embeddings |-> 0, pca_components |-> NoArr]
NoVars == [k \in {} |-> NoArr]

Node(kind, arr, ver, vars, prep) ==
  [kind |-> kind, arr |-> arr, ver |-> ver, vars |-> vars, prep |-> prep]

DirNode == Node("dir", NoArr, "", NoVars, NoPrep)
NpyNode(a) == Node("npy", a, "", NoVars, NoPrep)
MatNode(ver, vars) == Node("mat", NoArr, ver, vars, NoPrep)
PklNode(prep) == Node("pkl", NoArr, "", NoVars, prep)
OtherNode == Node("other", NoArr, "", NoVars, NoPrep)

\* path.exists / path.isdir; isdir of anything that is not a str is False.
exists(f, p) == p \in DOMAIN f
isdir(f, v) == v.kind = "str" /\ exists(f, v.path) /\ f[v.path].kind = "dir"

\* The file system with node n at path p (created or overwritten).
WithFile(f, p, n) == [q \in DOMAIN f \cup {p} |-> IF q = p THEN n ELSE f[q]]

\* path + "/" + file
Join(dir, file) == dir \o <<"/">> \o file

\* os.listdir(path): the names of the entries directly in the directory.
listdir(f, dir) ==
  { SubSeq(q, Len(dir) + 2, Len(q)) :
      q \in { q \in DOMAIN f :
                /\ Len(q) > Len(dir) + 1
                /\ SubSeq(q, 1, Len(dir) + 1) = dir \o <<"/">>
                /\ \A i \in (Len(dir) + 2)..Len(q) : q[i] # "/" } }

\* pathlib.Path(store_dir).mkdir(parents=True, exist_ok=True)
mkdir(f, p) == IF exists(f, p) THEN f ELSE WithFile(f, p, DirNode)

\* np.save(file, arr): ".npy" is appended to a name that does not end with it.
np_save_name(p) == IF EndsWith(p, NPY) THEN p ELSE p \o NPY
np_save(f, p, a) ==
  WithFile(f, np_save_name(p), NpyNode([a EXCEPT !.file = None, !.mode = ""]))

\* ------------------------------------------------------------------ list_dir
\* keep_ext: None, one str, or a list of str.
KeepNone == [kind |-> "None", exts |-> << >>]
KeepStr(e) == [kind |-> "str", exts |-> <<e>>]
KeepList(l) == [kind |-> "list", exts |-> l]

\* [path + "/" + file for file in names if keep(file)], in the order of names.
RECURSIVE FilesIn(_, _, _)
FilesIn(path, names, keep_ext) ==
  IF names = << >> THEN << >>
  ELSE LET file == Head(names)
           rest == FilesIn(path, Tail(names), keep_ext)
       IN  IF \/ keep_ext.kind = "None"
              \/ \E i \in 1..Len(keep_ext.exts) : file_ext(file) = keep_ext.exts[i]
           THEN <<Join(path, file)>> \o rest
           ELSE rest

\* A faulty variant of list_dir: the entries are not sorted (os.listdir's order,
\* here the reverse).
RECURSIVE Reverse(_)
Reverse(s) == IF s = << >> THEN << >> ELSE Reverse(Tail(s)) \o <<Head(s)>>
list_dir_unsorted(f, path, keep_ext) ==
  FilesIn(path, Reverse(Sorted(listdir(f, path))), keep_ext)

list_dir(f, path, keep_ext) == FilesIn(path, Sorted(listdir(f, path)), keep_ext)

\* ------------------------------------------------------------------ MATLAB
\* The on-disk generations of a MATLAB file: "v5" the legacy format (up to
\* v7.2), "v73" the modern HDF5-based format, "v73bad" a v7.3 header over
\* unreadable HDF5 content, "bad" no MATLAB file at all.
MatVersions == {"v5", "v73", "v73bad", "bad"}

KeyD == <<"D">>

\* The outcome of a decoder or of a load: the exception raised (NoErr when
\* none), the dict of variables or the array returned, and the calls made to
\* the decoders and to the logger, in order.
Decoded(err, mat, log) == [err |-> err, mat |-> mat, log |-> log]

\* scipy.io.loadmat(filename, simplify_cells=True): reads the legacy formats
\* and raises NotImplementedError on a v7.3 file.
scipy_io_loadmat(node) ==
  CASE node.ver = "v5" -> Decoded(NoErr, node.vars, <<"scipy.io.loadmat">>)
    [] node.ver \in {"v73", "v73bad"} ->
         Decoded(Exc("NotImplementedError", << >>), NoVars, <<"scipy.io.loadmat">>)
    [] OTHER -> Decoded(Exc("ValueError", << >>), NoVars, <<"scipy.io.loadmat">>)

\* mat73.loadmat(filename): reads the v7.3 format only.
mat73_loadmat(node) ==
  IF node.ver = "v73"
  THEN Decoded(NoErr, node.vars, <<"mat73.loadmat">>)
  ELSE Decoded(Exc("OSError", << >>), NoVars, <<"mat73.loadmat">>)

\* A faulty variant of loadmat: the v7.3 decoder first, scipy as the fallback.
loadmat_mat73_first(f, filename) ==
  LET first == mat73_loadmat(f[filename])
  IN  IF first.err.type = "OSError"
      THEN LET second == scipy_io_loadmat(f[filename])
           IN  Decoded(second.err, second.mat, first.log \o second.log)
      ELSE first

\* A faulty variant of loadmat: mat73 is tried after any failure of scipy.
loadmat_fallback_on_any_error(f, filename) ==
  LET first == scipy_io_loadmat(f[filename])
  IN  IF first.err # NoErr
      THEN LET second == mat73_loadmat(f[filename])
           IN  Decoded(second.err, second.mat, first.log \o second.log)
      ELSE first

\* loadmat(filename, return_dict=True): scipy first, mat73 only when scipy
\* raised NotImplementedError.
loadmat(f, filename) ==
  LET first == scipy_io_loadmat(f[filename])
  IN  IF first.err.type = "NotImplementedError"
      THEN LET second == mat73_loadmat(f[filename])
           IN  Decoded(second.err, second.mat, first.log \o second.log)
      ELSE first

\* spm.SPM(filename).data: the data of the SPM MEEG object held in key 'D'.
SPM_data(mat) == mat[KeyD]

MissingFieldMsg(field) ==
  << "f", "i", "e", "l", "d", " ", "'" >> \o field \o
  << "'", " ", "m", "i", "s", "s", "i", "n", "g", " ", "f", "r", "o", "m", " ",
     "M", "A", "T", "L", "A", "B", " ", "f", "i", "l", "e", "." >>

\* load_matlab(filename, field): mat.data is the array returned.
Loaded(err, data, log) == [err |-> err, data |-> data, log |-> log]

\* A faulty variant of load_matlab: the requested field is looked up first
\* and key 'D' is used only when the field is missing.
load_matlab_field_first(f, filename, field) ==
  LET m == loadmat(f, filename)
  IN  IF m.err # NoErr THEN Loaded(m.err, NoArr, m.log)
      ELSE IF field \in DOMAIN m.mat
      THEN Loaded(NoErr, m.mat[field], m.log)
      ELSE IF KeyD \in DOMAIN m.mat
      THEN Loaded(NoErr, SPM_data(m.mat), m.log \o <<"_logger.warning">>)
      ELSE Loaded(Exc("KeyError", MissingFieldMsg(field)), NoArr, m.log)

load_matlab(f, filename, field) ==
  LET m == loadmat(f, filename)
  IN  IF m.err # NoErr THEN Loaded(m.err, NoArr, m.log)
      ELSE IF KeyD \in DOMAIN m.mat
      THEN Loaded(NoErr, SPM_data(m.mat), m.log \o <<"_logger.warning">>)
      ELSE IF field \in DOMAIN m.mat
      THEN Loaded(NoErr, m.mat[field], m.log)
      ELSE Loaded(Exc("KeyError", MissingFieldMsg(field)), NoArr, m.log)

\* ------------------------------------------------------------------ load_data
UnsupportedMsg ==
  << "D", "a", "t", "a", " ", "f", "i", "l", "e", " ", "m", "u", "s", "t", " ",
     "b", "e", " ", ".", "n", "p", "y", " ", "o", "r", " ", ".", "m", "a", "t",
     "." >>

\* What load_data gives back: the exception raised or the array returned,
\* the file system it leaves, and the decoder and logger calls it made.
Outcome(err, ret, f, log) == [err |-> err, ret |-> ret, fs |-> f, log |-> log]

\* np.load(file, mmap_mode=mmap_mode): a memory map of an existing .npy file.
np_load_mmap(f, file, mmap_mode, log) ==
  IF file = None THEN Outcome(Exc("TypeError", << >>), NoArr, f, log)
  ELSE IF ~exists(f, file) THEN Outcome(Exc("FileNotFoundError", file), NoArr, f, log)
  ELSE IF f[file].kind # "npy" THEN Outcome(Exc("ValueError", << >>), NoArr, f, log)
  ELSE Outcome(NoErr, [f[file].arr EXCEPT !.file = file, !.mode = mmap_mode], f, log)

\* A faulty variant of check_source: the extension is checked before the
\* existence of the path.
check_source_ext_first(f, data) ==
  IF file_ext(data) \notin {NPY, MAT} THEN Exc("ValueError", UnsupportedMsg)
  ELSE IF ~exists(f, data) THEN Exc("FileNotFoundError", data)
  ELSE NoErr

\* A faulty variant of check_source: any extension is let through.
check_source_any_ext(f, data) ==
  IF ~exists(f, data) THEN Exc("FileNotFoundError", data) ELSE NoErr

\* The two checks of a str source: it exists, and it is a .npy or .mat file.
check_source(f, data) ==
  IF ~exists(f, data) THEN Exc("FileNotFoundError", data)
  ELSE IF file_ext(data) \notin {NPY, MAT} THEN Exc("ValueError", UnsupportedMsg)
  ELSE NoErr

\* A faulty variant of load_data_str: a .npy source is cast and copied to
\* mmap_location like the other sources.
load_data_str_copy_npy(f, data, data_field, mmap_location, mmap_mode) ==
  IF data.kind # "str" THEN np_load_mmap(f, mmap_location, mmap_mode, << >>)
  ELSE IF check_source(f, data.path) # NoErr
  THEN Outcome(check_source(f, data.path), NoArr, f, << >>)
  ELSE IF file_ext(data.path) = MAT
  THEN LET m == load_matlab(f, data.path, data_field)
           a == astype_float32(m.data)
       IN  IF m.err # NoErr THEN Outcome(m.err, NoArr, f, m.log)
           ELSE IF mmap_location = None THEN Outcome(NoErr, a, f, m.log)
           ELSE np_load_mmap(np_save(f, mmap_location, a), mmap_location,
                             mmap_mode, m.log)
  ELSE IF f[data.path].kind # "npy"
  THEN Outcome(Exc("ValueError", << >>), NoArr, f, << >>)
  ELSE IF mmap_location = None
  THEN Outcome(NoErr, astype_float32(f[data.path].arr), f, << >>)
  ELSE np_load_mmap(np_save(f, mmap_location, astype_float32(f[data.path].arr)),
                    mmap_location, mmap_mode, << >>)

\* load_data from "if isinstance(data, str)" on.
load_data_str(f, data, data_field, mmap_location, mmap_mode) ==
  IF data.kind # "str" THEN np_load_mmap(f, mmap_location, mmap_mode, << >>)
  ELSE IF check_source(f, data.path) # NoErr
  THEN Outcome(check_source(f, data.path), NoArr, f, << >>)
  ELSE IF file_ext(data.path) = MAT
  THEN LET m == load_matlab(f, data.path, data_field)
           a == astype_float32(m.data)
       IN  IF m.err # NoErr THEN Outcome(m.err, NoArr, f, m.log)
           ELSE IF mmap_location = None THEN Outcome(NoErr, a, f, m.log)
           ELSE np_load_mmap(np_save(f, mmap_location, a), mmap_location,
                             mmap_mode, m.log)
  ELSE IF mmap_location = None
  THEN IF f[data.path].kind # "npy"
       THEN Outcome(Exc("ValueError", << >>), NoArr, f, << >>)
       ELSE Outcome(NoErr, astype_float32(f[data.path].arr), f, << >>)
  ELSE np_load_mmap(f, data.path, mmap_mode, << >>)

\* load_data(data, data_field, mmap_location, mmap_mode)
load_data(f, data, data_field, mmap_location, mmap_mode) ==
  IF data.kind = "array"
  THEN IF mmap_location = None
       THEN Outcome(NoErr, astype_float32(data.arr), f, << >>)
       ELSE load_data_str(np_save(f, mmap_location, astype_float32(data.arr)),
                          StrVal(mmap_location), data_field, mmap_location,
                          mmap_mode)
  ELSE load_data_str(f, data, data_field, mmap_location, mmap_mode)

\* ------------------------------------------------------------------ IO
EmptyListMsg ==
  << "E", "m", "p", "t", "y", " ", "l", "i", "s", "t", " ", "p", "a", "s", "s",
     "e", "d", "." >>
InvalidKindMsg ==
  << "i", "n", "p", "u", "t", "s", " ", "m", "u", "s", "t", " ", "b", "e", " ",
     "s", "t", "r", ",", " ", "n", "p", ".", "n", "d", "a", "r", "r", "a", "y",
     " ", "o", "r", " ", "l", "i", "s", "t", "." >>
NoValidInputsMsg ==
  << "N", "o", " ", "v", "a", "l", "i", "d", " ", "i", "n", "p", "u", "t", "s",
     " ", "w", "e", "r", "e", " ", "p", "a", "s", "s", "e", "d", "." >>
ChannelMismatchMsg ==
  << "A", "l", "l", " ", "i", "n", "p", "u", "t", "s", " ", "s", "h", "o", "u",
     "l", "d", " ", "h", "a", "v", "e", " ", "t", "h", "e", " ", "s", "a", "m",
     "e", " ", "n", "u", "m", "b", "e", "r", " ", "o", "f", " ", "c", "h", "a",
     "n", "n", "e", "l", "s", "." >>

\* self._identifier, set by the class that mixes IO in before IO.__init__ runs.
Identifier == 7

StrVals(paths) == [i \in 1..Len(paths) |-> StrVal(paths[i])]

\* What iterating an array over its leading axis yields: scalars for a 1-D
\* array, else the sub-arrays.
ArrayItems(a) ==
  [i \in 1..a.shape[1] |->
     IF Len(a.shape) = 1 THEN ScalarVal
     ELSE ArrVal([a EXCEPT !.tag = 10 * a.tag + i, !.shape = Tail(a.shape)])]

\* for inp in inputs: a directory is replaced by its .npy/.mat files.
RECURSIVE ExpandDirs(_, _)
ExpandDirs(f, items) ==
  IF items = << >> THEN << >>
  ELSE LET inp == Head(items)
       IN  (IF isdir(f, inp)
            THEN StrVals(list_dir(f, inp.path, KeepList(<<NPY, MAT>>)))
            ELSE <<inp>>) \o ExpandDirs(f, Tail(items))

\* A faulty variant of ResolveList: a list is expanded whatever its first
\* element is.
ResolveList_always_expand(f, items) == ExpandDirs(f, items)

\* The list branch of IO.__init__, for a non-empty list.
ResolveList(f, items) ==
  IF items[1].kind = "str" THEN ExpandDirs(f, items) ELSE items

Resolved(err, inputs) == [err |-> err, inputs |-> inputs]

\* A faulty variant of CheckNotEmpty: an empty input list is let through.
CheckNotEmpty_skip(r) == r

\* if len(self.inputs) == 0: raise
CheckNotEmpty(r) ==
  IF r.err = NoErr /\ Len(r.inputs) = 0
  THEN Resolved(Exc("ValueError", NoValidInputsMsg), << >>)
  ELSE r

\* "Validate inputs" of IO.__init__: self.inputs, or the exception raised.
Resolve(f, inp) ==
  CheckNotEmpty(
    CASE inp.kind = "str" ->
           Resolved(NoErr,
                    IF isdir(f, inp)
                    THEN StrVals(list_dir(f, inp.path, KeepList(<<NPY, MAT>>)))
                    ELSE <<inp>>)
      [] inp.kind = "array" ->
           IF Len(inp.arr.shape) = 2 THEN Resolved(NoErr, <<inp>>)
           ELSE IF Len(inp.arr.shape) = 0
           THEN Resolved(Exc("TypeError", << >>), << >>)
           ELSE Resolved(NoErr, ArrayItems(inp.arr))
      [] inp.kind = "list" ->
           IF Len(inp.items) = 0
           THEN Resolved(Exc("ValueError", EmptyListMsg), << >>)
           ELSE Resolved(NoErr, ResolveList(f, inp.items))
      [] OTHER -> Resolved(Exc("ValueError", InvalidKindMsg), << >>))

\* self._identifier of a second store.
OtherIdentifier == 8

\* A faulty variant of raw_data_pattern: the name carries no identifier.
raw_data_pattern_no_identifier(store_dir, n, i, identifier) ==
  Join(store_dir,
       << "r", "a", "w", "_", "d", "a", "t", "a", "_" >>
       \o ZeroPad(Str(i), Len(Str(n))) \o NPY)

\* "raw_data_{i:0{width}d}_{identifier}.npy" under store_dir, i = 0..n-1,
\* width the number of digits of n.
raw_data_pattern(store_dir, n, i, identifier) ==
  Join(store_dir,
       << "r", "a", "w", "_", "d", "a", "t", "a", "_" >>
       \o ZeroPad(Str(i), Len(Str(n))) \o <<"_">> \o Str(identifier) \o NPY)

\* The backing path of input i of the store of identifier Identifier.
raw_data_filename(store_dir, n, i) ==
  raw_data_pattern(store_dir, n, i, Identifier)

\* memmap.shape[-1]
LastDim(a) == a.shape[Len(a.shape)]

\* A faulty variant of validate_data: only neighbours are compared with
\* the first array left out.
validate_data_skip_first(mm) ==
  IF \E i \in 2..Len(mm) : \E j \in 2..Len(mm) : LastDim(mm[i]) # LastDim(mm[j])
  THEN Exc("ValueError", ChannelMismatchMsg)
  ELSE NoErr

\* validate_data: every array has the first array's number of channels.
validate_data(mm) ==
  IF \E i \in 1..Len(mm) : LastDim(mm[i]) # LastDim(mm[1])
  THEN Exc("ValueError", ChannelMismatchMsg)
  ELSE NoErr

\* load_preparation(inputs): the exception raised or the attributes set.
Prepared(err, found, prep) == [err |-> err, found |-> found, prep |-> prep]

load_preparation(f, inp) ==
  IF ~isdir(f, inp) THEN Prepared(NoErr, FALSE, NoPrep)
  ELSE IF ~\E i \in 1..Len(list_dir(f, inp.path, KeepNone)) :
              Contains(list_dir(f, inp.path, KeepNone)[i], PREPARATION_PKL)
  THEN Prepared(NoErr, FALSE, NoPrep)
  ELSE LET file == Join(inp.path, PREPARATION_PKL)
       IN  IF ~exists(f, file)
           THEN Prepared(Exc("FileNotFoundError", file), FALSE, NoPrep)
           ELSE IF f[file].kind # "pkl"
           THEN Prepared(Exc("UnpicklingError", << >>), FALSE, NoPrep)
           ELSE IF Len(f[file].prep.pca_components.shape) < 2
           THEN Prepared(Exc("AttributeError", << >>), FALSE, NoPrep)
           ELSE Prepared(NoErr, TRUE, f[file].prep)

\* ------------------------------------------------------------------ teardown
\* q lies inside directory dir, at any depth.
IsUnder(q, dir) ==
  Len(q) > Len(dir) + 1 /\ SubSeq(q, 1, Len(dir) + 1) = dir \o <<"/">>

\* shutil.rmtree(path): the directory and everything in it.
rmtree(f, dir) ==
  [q \in { q \in DOMAIN f : q # dir /\ ~IsUnder(q, dir) } |-> f[q]]

\* A faulty variant of delete_dir: the directory is removed only when empty.
delete_dir_only_if_empty(f, store_dir) ==
  IF exists(f, store_dir) /\ listdir(f, store_dir) = {}
  THEN rmtree(f, store_dir)
  ELSE f

\* delete_dir: if self.store_dir.exists(): rmtree(self.store_dir)
delete_dir(f, store_dir) ==
  IF exists(f, store_dir) THEN rmtree(f, store_dir) ELSE f

\* pathlib.Path(filename).unlink(missing_ok=True), for each name in turn.
RECURSIVE unlink_each(_, _)
unlink_each(f, names) ==
  IF names = << >> THEN f
  ELSE unlink_each([q \in DOMAIN f \ {Head(names)} |-> f[q]], Tail(names))

\* self.store_dir.rmdir(), when the directory exists and iterdir() yields
\* nothing.
rmdir_if_empty(f, store_dir) ==
  IF exists(f, store_dir) /\ listdir(f, store_dir) = {}
  THEN [q \in DOMAIN f \ {store_dir} |-> f[q]]
  ELSE f

\* What delete_io_memmaps does outside the store: the file system it leaves
\* and the paths it called unlink with, in order.
Teardown(f, unlinked) == [fs |-> f, unlinked |-> unlinked]

\* A faulty variant of delete_io_memmaps: the directory is looked at before
\* the backing files are unlinked.
delete_io_memmaps_rmdir_first(f, store_dir, names) ==
  Teardown(unlink_each(rmdir_if_empty(f, store_dir), names), names)

\* delete_io_memmaps, lines 108-113; names is self.raw_data_filenames, None
\* after an earlier call.
delete_io_memmaps(f, store_dir, names) ==
  Teardown(rmdir_if_empty(unlink_each(f, names), store_dir), names)

\* ------------------------------------------------------------------ save
\* f"{output_dir}/subject{i}.npy"
subject_filename(output_dir, i) ==
  Join(output_dir, << "s", "u", "b", "j", "e", "c", "t" >> \o Str(i) \o NPY)

\* self.n_subjects, a property of the class that mixes IO in.
n_subjects(subj) == Len(subj)

\* self.prepared on a store on which load_preparation found no record: the
\* value the class that mixes IO in gives it.
prepared_default == FALSE

\* A faulty variant of save_subjects: the loop starts at subject 1.
RECURSIVE save_subjects_from_one(_, _, _, _)
save_subjects_from_one(f, output_dir, subj, n) ==
  IF n <= 1 THEN f
  ELSE np_save(save_subjects_from_one(f, output_dir, subj, n - 1),
               subject_filename(output_dir, n - 1), subj[n])

\* np.save(f"{output_dir}/subject{i}.npy", self.subjects[i]) for i = 0..n-1.
RECURSIVE save_subjects(_, _, _, _)
save_subjects(f, output_dir, subj, n) ==
  IF n = 0 THEN f
  ELSE np_save(save_subjects(f, output_dir, subj, n - 1),
               subject_filename(output_dir, n - 1), subj[n])

\* A faulty variant of save: the preparation is written whether or not the
\* store is prepared.
save_always_record(f, output_dir, subj, prepared, p) ==
  WithFile(save_subjects(mkdir(f, output_dir), output_dir, subj,
                         n_subjects(subj)),
           Join(output_dir, PREPARATION_PKL),
           PklNode([n_embeddings |-> p.n_embeddings,
                    pca_components |-> p.pca_components]))

\* save(output_dir): the file system it leaves.  p is the preparation held
\* by the store.
save(f, output_dir, subj, prepared, p) ==
  LET saved == save_subjects(mkdir(f, output_dir), output_dir, subj,
                             n_subjects(subj))
  IN  IF prepared
      THEN WithFile(saved, Join(output_dir, PREPARATION_PKL),
                    PklNode([n_embeddings |-> p.n_embeddings,
                             pca_components |-> p.pca_components]))
      ELSE saved

\* ------------------------------------------------------------------ world
\* Samples per array of the test files and in-memory arrays.
NSamples == 3

P_d == <<"d">>
P_e == <<"e">>
P_p == <<"p">>
P_q == <<"q">>
P_s == <<"s">>
P_x_npy == <<"x", ".", "n", "p", "y">>
P_y_mat == <<"y", ".", "m", "a", "t">>
P_k_mat == <<"k", ".", "m", "a", "t">>
P_z_txt == <<"z", ".", "t", "x", "t">>
P_m_npy == <<"m", ".", "n", "p", "y">>
P_m_txt == <<"m", ".", "t", "x", "t">>
P_t_npy == <<"t", ".", "n", "p", "y">>
P_t == <<"t">>
P_o == <<"o">>
N_a_npy == <<"a", ".", "n", "p", "y">>
N_A_NPY == <<"A", ".", "N", "P", "Y">>
N_b_mat == <<"b", ".", "m", "a", "t">>
N_c_txt == <<"c", ".", "t", "x", "t">>
N_hidden_npy == <<".", "n", "p", "y">>
N_subject0_npy == <<"s", "u", "b", "j", "e", "c", "t", "0", ".", "n", "p", "y">>
N_xpreparation_pkl == <<"x">> \o PREPARATION_PKL
KeyX == <<"X">>
KeyY == <<"Y">>

\* The function with the given set of <<argument, value>> pairs.
FunOf(pairs) ==
  [k \in {e[1] : e \in pairs} |-> (CHOOSE e \in pairs : e[1] = k)[2]]

\* A file system before the store is opened: a data directory d, an empty
\* directory e, a prepared directory p (a .mat file, a .npy file and the
\* preparation pickle), a directory q whose only pickle is
\* named xpreparation.pkl, and single files.  The MATLAB files b.mat and y.mat
\* hold c channels; y.mat is of generation ver.  The store directory s, m.npy
\* and m.txt do not exist.
World(c, ver) ==
  FunOf({
    << P_d, DirNode >>,
    << Join(P_d, N_A_NPY), OtherNode >>,
    << Join(P_d, N_hidden_npy), OtherNode >>,
    << Join(P_d, N_a_npy), NpyNode(Arr(1, <<NSamples, 1>>, "float64")) >>,
    << Join(P_d, N_b_mat),
       MatNode("v5", FunOf({<<KeyX, Arr(2, <<NSamples, c>>, "float64")>>})) >>,
    << Join(P_d, N_c_txt), OtherNode >>,
    << P_e, DirNode >>,
    << P_x_npy, NpyNode(Arr(3, <<NSamples, 1>>, "float64")) >>,
    << P_y_mat,
       MatNode(ver, FunOf({<<KeyX, Arr(4, <<NSamples, c>>, "float64")>>})) >>,
    << P_k_mat,
       MatNode("v5", FunOf({<<KeyD, Arr(5, <<NSamples, 1>>, "float64")>>,
                            <<KeyX, Arr(6, <<NSamples, 1>>, "float64")>>})) >>,
    << P_z_txt, OtherNode >>,
    << P_p, DirNode >>,
    << Join(P_p, N_b_mat),
       MatNode("v5", FunOf({<<KeyX, Arr(10, <<NSamples, 1>>, "float64")>>})) >>,
    << Join(P_p, N_subject0_npy), NpyNode(Arr(7, <<NSamples, 1>>, "float32")) >>,
    << Join(P_p, PREPARATION_PKL),
       PklNode([n_embeddings |-> 3,
                pca_components |-> Arr(8, <<2, 1>>, "float32")]) >>,
    << P_q, DirNode >>,
    << Join(P_q, N_a_npy), NpyNode(Arr(9, <<NSamples, 1>>, "float32")) >>,
    << Join(P_q, N_xpreparation_pkl), OtherNode >> })

Worlds == { World(c, ver) : c \in 1..MaxChan, ver \in MatVersions }

\* In-memory arrays passed in a list: (NSamples, c) for c up to MaxChan.
ListArrays == { Arr(20 + c, <<NSamples, c>>, "float64") : c \in 1..MaxChan }

\* The elements a list descriptor is made of.
ListItems ==
  { StrVal(q) : q \in {P_d, P_e, P_p, P_x_npy, P_y_mat, P_z_txt, P_m_npy} }
  \cup { ArrVal(a) : a \in ListArrays }

\* Sequences over S of length at most n.
SeqUpTo(S, n) == UNION { [1..k -> S] : k \in 0..n }

\* The array descriptors: of rank 0, 1, 2 and 3, with leading length 0 too.
ArrayShapes ==
  { << >> }
  \cup { <<n>> : n \in 0..MaxLead }
  \cup { <<n, c>> : n \in {0, NSamples}, c \in 1..MaxChan }
  \cup { <<n, NSamples, c>> : n \in 0..MaxLead, c \in 1..MaxChan }

\* A 3-D array of ManySubjects subjects of one channel.
ManyArray == Arr(30, << ManySubjects, NSamples, 1 >>, "float64")

\* Every input descriptor IO.__init__ is called with.
Descriptors ==
  {OtherVal}
  \cup { StrVal(q) : q \in {P_d, P_e, P_p, P_q, P_x_npy, P_y_mat, P_k_mat,
                             P_z_txt, P_m_npy, P_m_txt} }
  \cup { ArrVal(Arr(30, sh, "float64")) : sh \in ArrayShapes }
  \cup { ArrVal(ManyArray) }
  \cup { ListVal(l) : l \in SeqUpTo(ListItems, MaxList) }

\* ------------------------------------------------------------------ state
VARIABLES
  fs,                   \* the file system
  pc,                   \* where the program is: "start", inside IO.__init__
                        \* ("load", "prepare", "register"), "open" (the store
                        \* is constructed), "called" (a method of the store
                        \* has returned), "returned" (a module function
                        \* returned), "failed" (an exception reached the caller)
  args,                 \* the arguments of the call made
  err,                  \* the exception that reached the caller, or NoErr
  log,                  \* decoder and logger calls of the latest load_data
  attrs,                \* the names of the attributes set on the store
  inputs,               \* self.inputs
  memmaps,              \* load_raw_data's local list memmaps
  filenames,            \* load_raw_data's local list raw_data_filenames
  raw_data_memmaps,     \* self.raw_data_memmaps
  raw_data_filenames,   \* self.raw_data_filenames
  n_raw_data_channels,  \* self.n_raw_data_channels
  subjects,             \* self.subjects
  prep,                 \* self.n_embeddings, .pca_components, .n_pca_components
  listing,              \* what list_dir returned
  loaded,               \* what load_data returned
  call,                 \* the latest method call made on the store
  unlinked,             \* the paths that call passed to unlink, in order
  saved,                \* the store as it was when save was last called
  before,               \* the file system as it was when IO.__init__ began
  other,                \* a second store that shares the store directory
  layers,               \* the layers of a Keras model and of its sub-models
  keep,                 \* the keep argument of reinitialize_model_weights
  frames,               \* the calls of reinitialize_model_weights under way
  reinitialized,        \* the calls of reinitialize_layer_weights, in order
  rpc,                  \* "idle", "running" or "done"
  time_series,          \* Data.time_series: the functions applied to raw_data
  pca_applied,          \* Data.pca_applied
  n_min,                \* Data.n_min
  n_max,                \* Data.n_max
  dcall,                \* the latest call on the Data object
  trainer,              \* the class of the trainer: Trainer or AnnealingTrainer
  loss_history,         \* Trainer.loss_history
  n_epochs,             \* Trainer.n_epochs
  remaining,            \* the epochs the loop of train has still to run
  trained,              \* the epochs trained since the trainer was made
  tpc                   \* "none", "idle", "training" or "failed"

vars ==
  << fs, pc, args, err, log, attrs, inputs, memmaps, filenames,
     raw_data_memmaps, raw_data_filenames, n_raw_data_channels, subjects,
     prep, listing, loaded, call, unlinked, saved, before, other,
     layers, keep, frames, reinitialized, rpc,
     time_series, pca_applied, n_min, n_max, dcall,
     trainer, loss_history, n_epochs, remaining, trained, tpc >>

store == << attrs, inputs, memmaps, filenames, raw_data_memmaps,
            raw_data_filenames, n_raw_data_channels, subjects, prep >>

Call(fn, inp, field, dir, taf, keep_ext, mmap_location, mmap_mode) ==
  [fn |-> fn, inputs |-> inp, data_field |-> field,
   store_dir |-> dir, time_axis_first |-> taf,
   keep_memmaps_on_close |-> FALSE, keep_ext |-> keep_ext,
   mmap_location |-> mmap_location, mmap_mode |-> mmap_mode]

NoCall == Call("", OtherVal, << >>, << >>, TRUE, KeepNone, None, "")

\* A method call on the store and its output_dir argument (None without).
MethodCall(fn, output_dir) == [fn |-> fn, output_dir |-> output_dir]
NoMethodCall == MethodCall("", None)

method == << call, unlinked >>

\* What save read from the store: self.subjects, the channel count, and the
\* preparation when the store is prepared.
Saved(subj, n_channels, prepared, p) ==
  [subjects |-> subj, n_raw_data_channels |-> n_channels,
   prepared |-> prepared, prep |-> p]
NoSaved == Saved(<< >>, 0, FALSE, [n_embeddings |-> 0, pca_components |-> NoArr,
                                  n_pca_components |-> 0])

history == << saved, before >>

\* The second store: where it is in its life ("none" before IO.__init__,
\* "open", "closed" after delete_io_memmaps) and its raw_data_filenames.
OtherStore(at, names) == [pc |-> at, raw_data_filenames |-> names]
NoOther == OtherStore("none", << >>)

\* No model is given to reinitialize_model_weights.
weights == << layers, keep, frames, reinitialized, rpc >>
WeightsIdle ==
  /\ layers = << >>
  /\ keep = {}
  /\ frames = << >>
  /\ reinitialized = << >>
  /\ rpc = "idle"

\* None where the other values are numbers.
NoNumber == 0 - 1

\* A call on the Data object: the method, the force argument of pca, and
\* time_series as it was when the call was made.
DataCall(fn, force, was) == [fn |-> fn, force |-> force, was |-> was]

\* No Data object is made.
dataAttrs == << time_series, pca_applied, n_min, n_max, dcall >>
DataIdle ==
  /\ time_series = << >>
  /\ pca_applied = FALSE
  /\ n_min = NoNumber
  /\ n_max = NoNumber
  /\ dcall = DataCall("", FALSE, << >>)

\* No trainer is made.
training == << trainer, loss_history, n_epochs, remaining, trained, tpc >>
TrainingIdle ==
  /\ trainer = ""
  /\ loss_history = << >>
  /\ n_epochs = NoNumber
  /\ remaining = 0
  /\ trained = 0
  /\ tpc = "none"

\* The objects apart from the store.
outside == << other, weights, dataAttrs, training >>
OutsideIdle == other = NoOther /\ WeightsIdle /\ DataIdle /\ TrainingIdle

NoStorePrep ==
  [n_embeddings |-> 0, pca_components |-> NoArr, n_pca_components |-> 0]

IOInit ==
  /\ fs \in Worlds
  /\ pc = "start"
  /\ args = NoCall
  /\ err = NoErr
  /\ log = << >>
  /\ attrs = {}
  /\ inputs = << >>
  /\ memmaps = << >>
  /\ filenames = << >>
  /\ raw_data_memmaps = << >>
  /\ raw_data_filenames = << >>
  /\ n_raw_data_channels = 0
  /\ subjects = << >>
  /\ prep = NoStorePrep
  /\ listing = << >>
  /\ loaded = NoArr
  /\ call = NoMethodCall
  /\ unlinked = << >>
  /\ saved = NoSaved
  /\ before = fs

Init == IOInit /\ OutsideIdle

\* No store is opened: the state of the store while another object is used.
IOIdle == IOInit /\ fs = World(1, "v5") /\ other = NoOther
io == << fs, pc, args, err, log, store, listing, loaded, method, history, other >>

\* ------------------------------------------------------------------ IO.__init__
\* Lines 46-82 and the file names of load_raw_data (152-158): the inputs are
\* resolved, the store directory is made, the backing paths are named.
OpenBegin ==
  /\ UNCHANGED << method, history, outside >>
  /\ pc = "start"
  /\ \E inp \in Descriptors, taf \in BOOLEAN :
       LET r == Resolve(fs, inp)
           n == Len(r.inputs)
       IN  /\ args' = Call("IO", inp, KeyX, P_s, taf, KeepNone, None, "")
           /\ IF r.err # NoErr
              THEN /\ pc' = "failed"
                   /\ err' = r.err
                   /\ UNCHANGED << fs, store >>
              ELSE /\ pc' = "load"
                   /\ err' = NoErr
                   /\ inputs' = r.inputs
                   /\ attrs' = {"inputs", "keep_memmaps_on_close", "store_dir"}
                   /\ fs' = mkdir(fs, P_s)
                   /\ filenames' =
                        [i \in 1..n |-> raw_data_filename(P_s, n, i - 1)]
                   /\ memmaps' = << >>
                   /\ UNCHANGED << raw_data_memmaps, raw_data_filenames,
                                   n_raw_data_channels, subjects, prep >>
  /\ UNCHANGED << log, listing, loaded >>

\* The file system without the files named in names.
Without(f, names) ==
  [q \in DOMAIN f \ {names[i] : i \in 1..Len(names)} |-> f[q]]

\* A faulty variant of LoadStep: a failed load removes the backing files
\* written for the earlier inputs.
LoadStep_rollback ==
  /\ UNCHANGED << method, history, outside >>
  /\ pc = "load"
  /\ Len(memmaps) < Len(inputs)
  /\ LET k == Len(memmaps) + 1
         r == load_data(fs, inputs[k], args.data_field, filenames[k], "r")
     IN  /\ log' = r.log
         /\ IF r.err # NoErr
            THEN /\ pc' = "failed"
                 /\ err' = r.err
                 /\ fs' = Without(r.fs, filenames)
                 /\ UNCHANGED memmaps
            ELSE /\ memmaps' = Append(memmaps,
                                      IF args.time_axis_first THEN r.ret
                                      ELSE Transpose(r.ret))
                 /\ fs' = r.fs
                 /\ UNCHANGED << pc, err >>
  /\ UNCHANGED << args, attrs, inputs, filenames, raw_data_memmaps,
                  raw_data_filenames, n_raw_data_channels, subjects, prep,
                  listing, loaded >>

\* A faulty variant of LoadStep: the array is never transposed.
LoadStep_never_transpose ==
  /\ UNCHANGED << method, history, outside >>
  /\ pc = "load"
  /\ Len(memmaps) < Len(inputs)
  /\ LET k == Len(memmaps) + 1
         r == load_data(fs, inputs[k], args.data_field, filenames[k], "r")
     IN  /\ fs' = r.fs
         /\ log' = r.log
         /\ IF r.err # NoErr
            THEN /\ pc' = "failed"
                 /\ err' = r.err
                 /\ UNCHANGED memmaps
            ELSE /\ memmaps' = Append(memmaps, r.ret)
                 /\ UNCHANGED << pc, err >>
  /\ UNCHANGED << args, attrs, inputs, filenames, raw_data_memmaps,
                  raw_data_filenames, n_raw_data_channels, subjects, prep,
                  listing, loaded >>

\* One turn of the loop of load_raw_data (lines 163-171).
LoadStep ==
  /\ UNCHANGED << method, history, outside >>
  /\ pc = "load"
  /\ Len(memmaps) < Len(inputs)
  /\ LET k == Len(memmaps) + 1
         r == load_data(fs, inputs[k], args.data_field, filenames[k], "r")
     IN  /\ fs' = r.fs
         /\ log' = r.log
         /\ IF r.err # NoErr
            THEN /\ pc' = "failed"
                 /\ err' = r.err
                 /\ UNCHANGED memmaps
            ELSE /\ memmaps' = Append(memmaps,
                                      IF args.time_axis_first THEN r.ret
                                      ELSE Transpose(r.ret))
                 /\ UNCHANGED << pc, err >>
  /\ UNCHANGED << args, attrs, inputs, filenames, raw_data_memmaps,
                  raw_data_filenames, n_raw_data_channels, subjects, prep,
                  listing, loaded >>

\* A faulty variant of ValidateStep: the channel count and the subjects are
\* registered before validate_data has run.
ValidateStep_register_early ==
  /\ UNCHANGED << method, history, outside >>
  /\ pc = "load"
  /\ Len(memmaps) = Len(inputs)
  /\ raw_data_memmaps' = memmaps
  /\ raw_data_filenames' = filenames
  /\ n_raw_data_channels' = LastDim(memmaps[1])
  /\ subjects' = memmaps
  /\ attrs' = attrs \cup {"raw_data_memmaps", "raw_data_filenames",
                          "n_raw_data_channels", "subjects"}
  /\ IF validate_data(memmaps) # NoErr
     THEN pc' = "failed" /\ err' = validate_data(memmaps)
     ELSE pc' = "prepare" /\ UNCHANGED err
  /\ UNCHANGED << fs, args, log, inputs, memmaps, filenames, prep, listing,
                  loaded >>

\* load_raw_data returns (line 173, assigned at 85) and validate_data runs
\* (line 88).
ValidateStep ==
  /\ UNCHANGED << method, history, outside >>
  /\ pc = "load"
  /\ Len(memmaps) = Len(inputs)
  /\ raw_data_memmaps' = memmaps
  /\ raw_data_filenames' = filenames
  /\ attrs' = attrs \cup {"raw_data_memmaps", "raw_data_filenames"}
  /\ IF validate_data(memmaps) # NoErr
     THEN pc' = "failed" /\ err' = validate_data(memmaps)
     ELSE pc' = "prepare" /\ UNCHANGED err
  /\ UNCHANGED << fs, args, log, inputs, memmaps, filenames,
                  n_raw_data_channels, subjects, prep, listing, loaded >>

\* A faulty variant of PrepareStep: n_pca_components is the first dimension
\* of pca_components.
PrepareStep_first_dimension ==
  /\ UNCHANGED << method, history, outside >>
  /\ pc = "prepare"
  /\ LET r == IF args.inputs.kind = "list" THEN Prepared(NoErr, FALSE, NoPrep)
              ELSE load_preparation(fs, args.inputs)
     IN  IF r.err # NoErr
         THEN pc' = "failed" /\ err' = r.err /\ UNCHANGED << attrs, prep >>
         ELSE /\ pc' = "register"
              /\ UNCHANGED err
              /\ IF r.found
                 THEN /\ prep' = [n_embeddings |-> r.prep.n_embeddings,
                                  pca_components |-> r.prep.pca_components,
                                  n_pca_components |->
                                    r.prep.pca_components.shape[1]]
                      /\ attrs' = attrs \cup {"n_embeddings", "pca_components",
                                              "n_pca_components", "prepared"}
                 ELSE UNCHANGED << attrs, prep >>
  /\ UNCHANGED << fs, args, log, inputs, memmaps, filenames, raw_data_memmaps,
                  raw_data_filenames, n_raw_data_channels, subjects, listing,
                  loaded >>

\* A faulty variant of PrepareStep: for a list, load_preparation is called on
\* its first item.
PrepareStep_first_item ==
  /\ UNCHANGED << method, history, outside >>
  /\ pc = "prepare"
  /\ LET r == IF args.inputs.kind = "list"
              THEN load_preparation(fs, args.inputs.items[1])
              ELSE load_preparation(fs, args.inputs)
     IN  IF r.err # NoErr
         THEN pc' = "failed" /\ err' = r.err /\ UNCHANGED << attrs, prep >>
         ELSE /\ pc' = "register"
              /\ UNCHANGED err
              /\ IF r.found
                 THEN /\ prep' = [n_embeddings |-> r.prep.n_embeddings,
                                  pca_components |-> r.prep.pca_components,
                                  n_pca_components |->
                                    r.prep.pca_components.shape[2]]
                      /\ attrs' = attrs \cup {"n_embeddings", "pca_components",
                                              "n_pca_components", "prepared"}
                 ELSE UNCHANGED << attrs, prep >>
  /\ UNCHANGED << fs, args, log, inputs, memmaps, filenames, raw_data_memmaps,
                  raw_data_filenames, n_raw_data_channels, subjects, listing,
                  loaded >>

\* Lines 90-92: load_preparation, unless inputs is a list.
PrepareStep ==
  /\ UNCHANGED << method, history, outside >>
  /\ pc = "prepare"
  /\ LET r == IF args.inputs.kind = "list" THEN Prepared(NoErr, FALSE, NoPrep)
              ELSE load_preparation(fs, args.inputs)
     IN  IF r.err # NoErr
         THEN pc' = "failed" /\ err' = r.err /\ UNCHANGED << attrs, prep >>
         ELSE /\ pc' = "register"
              /\ UNCHANGED err
              /\ IF r.found
                 THEN /\ prep' = [n_embeddings |-> r.prep.n_embeddings,
                                  pca_components |-> r.prep.pca_components,
                                  n_pca_components |->
                                    r.prep.pca_components.shape[2]]
                      /\ attrs' = attrs \cup {"n_embeddings", "pca_components",
                                              "n_pca_components", "prepared"}
                 ELSE UNCHANGED << attrs, prep >>
  /\ UNCHANGED << fs, args, log, inputs, memmaps, filenames, raw_data_memmaps,
                  raw_data_filenames, n_raw_data_channels, subjects, listing,
                  loaded >>

\* Lines 94-99: the attributes describing the raw data, and the subjects.
Register ==
  /\ UNCHANGED << method, history, outside >>
  /\ pc = "register"
  /\ n_raw_data_channels' = LastDim(raw_data_memmaps[1])
  /\ subjects' = raw_data_memmaps
  /\ attrs' = attrs \cup {"n_raw_data_channels", "sampling_frequency", "subjects"}
  /\ pc' = "open"
  /\ UNCHANGED << fs, args, err, log, inputs, memmaps, filenames,
                  raw_data_memmaps, raw_data_filenames, prep, listing, loaded >>

\* ------------------------------------------------------- methods of the store
\* A call of delete_dir() on the constructed store.
DeleteDirCall ==
  /\ UNCHANGED << history, outside >>
  /\ pc \in {"open", "called"}
  /\ fs' = delete_dir(fs, args.store_dir)
  /\ call' = MethodCall("delete_dir", None)
  /\ unlinked' = << >>
  /\ pc' = "called"
  /\ UNCHANGED << args, err, log, store, listing, loaded >>

\* A faulty variant of DeleteIoMemmapsCall: self.raw_data_filenames is left
\* as it is.
DeleteIoMemmapsCall_keep_filenames ==
  /\ UNCHANGED << history, outside >>
  /\ pc \in {"open", "called"}
  /\ LET r == delete_io_memmaps(fs, args.store_dir, raw_data_filenames)
     IN  fs' = r.fs /\ unlinked' = r.unlinked
  /\ raw_data_memmaps' = None
  /\ call' = MethodCall("delete_io_memmaps", None)
  /\ pc' = "called"
  /\ UNCHANGED << args, err, log, attrs, inputs, memmaps, filenames,
                  raw_data_filenames, n_raw_data_channels, subjects, prep,
                  listing, loaded >>

\* A call of delete_io_memmaps() on the constructed store (lines 108-115).
DeleteIoMemmapsCall ==
  /\ UNCHANGED << history, outside >>
  /\ pc \in {"open", "called"}
  /\ LET r == delete_io_memmaps(fs, args.store_dir, raw_data_filenames)
     IN  fs' = r.fs /\ unlinked' = r.unlinked
  /\ raw_data_memmaps' = None
  /\ raw_data_filenames' = None
  /\ call' = MethodCall("delete_io_memmaps", None)
  /\ pc' = "called"
  /\ UNCHANGED << args, err, log, attrs, inputs, memmaps, filenames,
                  n_raw_data_channels, subjects, prep, listing, loaded >>

\* The directories save is called with: the store directory and another one.
OutputDirs == {P_s, P_o}

\* A call of save(output_dir) on the constructed store.  The stores saved
\* are the ones opened on one of the original paths and the one opened on
\* the array of ManySubjects subjects, and no subject is memory-mapped from
\* a file the call writes.
SaveCall ==
  /\ pc \in {"open", "called"}
  /\ \/ args.inputs.kind = "str" /\ args.inputs.path \notin OutputDirs
     \/ args.inputs = ArrVal(ManyArray)
  /\ saved' = Saved(subjects, n_raw_data_channels,
                    IF "prepared" \in attrs THEN TRUE ELSE prepared_default,
                    prep)
  /\ UNCHANGED << before, outside >>
  /\ \E output_dir \in OutputDirs :
       /\ \A i \in 1..Len(subjects) : \A j \in 1..Len(subjects) :
            subjects[i].file # subject_filename(output_dir, j - 1)
       /\ fs' = save(fs, output_dir, subjects,
                     IF "prepared" \in attrs THEN TRUE ELSE prepared_default,
                     prep)
       /\ call' = MethodCall("save", output_dir)
  /\ unlinked' = << >>
  /\ pc' = "called"
  /\ UNCHANGED << args, err, log, store, listing, loaded >>

\* IO.__init__ on the directory the store was just saved to, with the same
\* store directory: lines 46-82 and 152-158, as in OpenBegin, for a new store.
\* Its identifier is the one of the store that saved or another one.
OpenSaved ==
  /\ pc = "called"
  /\ call.fn = "save"
  /\ before' = fs
  /\ UNCHANGED << saved, outside >>
  /\ LET inp == StrVal(call.output_dir)
         r == Resolve(fs, inp)
         n == Len(r.inputs)
     IN  /\ \E time_axis_first \in BOOLEAN :
              args' = Call("IO", inp, KeyX, P_s, time_axis_first, KeepNone,
                           None, "")
         /\ IF r.err # NoErr
            THEN /\ pc' = "failed"
                 /\ err' = r.err
                 /\ inputs' = << >>
                 /\ attrs' = {}
                 /\ filenames' = << >>
                 /\ UNCHANGED fs
            ELSE /\ pc' = "load"
                 /\ err' = NoErr
                 /\ inputs' = r.inputs
                 /\ attrs' = {"inputs", "keep_memmaps_on_close", "store_dir"}
                 /\ fs' = mkdir(fs, P_s)
                 /\ \E identifier \in {Identifier, OtherIdentifier} :
                      filenames' =
                        [i \in 1..n |->
                           raw_data_pattern(P_s, n, i - 1, identifier)]
  /\ memmaps' = << >>
  /\ raw_data_memmaps' = << >>
  /\ raw_data_filenames' = << >>
  /\ n_raw_data_channels' = 0
  /\ subjects' = << >>
  /\ prep' = NoStorePrep
  /\ log' = << >>
  /\ call' = NoMethodCall
  /\ unlinked' = << >>
  /\ UNCHANGED << listing, loaded >>

\* ------------------------------------------------------- module functions
\* The directories and extension filters list_dir is called with.
KeepChoices ==
  { KeepNone, KeepStr(NPY), KeepStr(MAT), KeepList(<<NPY, MAT>>),
    KeepList(<< <<".", "t", "x", "t">>, MAT >>) }

\* A call of list_dir(path, keep_ext) on a directory.
ListDirCall ==
  /\ UNCHANGED << method, history, outside >>
  /\ pc = "start"
  /\ \E path \in {P_d, P_e, P_p, P_q}, keep_ext \in KeepChoices :
       /\ args' = Call("list_dir", StrVal(path), << >>, << >>, TRUE, keep_ext,
                       None, "")
       /\ listing' = list_dir(fs, path, keep_ext)
  /\ pc' = "returned"
  /\ UNCHANGED << fs, err, log, store, loaded >>

\* The sources load_data is called with directly.
Sources ==
  { StrVal(q) : q \in {P_d, P_x_npy, P_y_mat, P_k_mat, P_z_txt, P_m_npy,
                        P_m_txt, Join(P_d, N_A_NPY), Join(P_d, N_hidden_npy)} }
  \cup { ArrVal(a) : a \in ListArrays }

\* A call of load_data(data, data_field, mmap_location, mmap_mode).
LoadDataCall ==
  /\ UNCHANGED << method, history, outside >>
  /\ pc = "start"
  /\ \E data \in Sources, data_field \in {KeyX, KeyY},
        mmap_location \in {None, P_t_npy, P_t}, mmap_mode \in {"r+", "r"} :
       LET r == load_data(fs, data, data_field, mmap_location, mmap_mode)
       IN  /\ args' = Call("load_data", data, data_field, << >>, TRUE, KeepNone,
                           mmap_location, mmap_mode)
           /\ fs' = r.fs
           /\ log' = r.log
           /\ err' = r.err
           /\ loaded' = r.ret
           /\ pc' = IF r.err # NoErr THEN "failed" ELSE "returned"
  /\ UNCHANGED << store, listing >>

Next ==
  \/ OpenBegin
  \/ LoadStep
  \/ ValidateStep
  \/ PrepareStep
  \/ Register
  \/ DeleteDirCall
  \/ DeleteIoMemmapsCall
  \/ SaveCall
  \/ OpenSaved
  \/ ListDirCall
  \/ LoadDataCall

Spec == Init /\ [][Next]_vars

\* ------------------------------------------------ two stores, one directory
\* The descriptors the second store is opened on: a 2-D array, a 3-D array
\* of two subjects, and a .npy file.
OtherDescriptors ==
  { ArrVal(Arr(40, << NSamples, 1 >>, "float64")),
    ArrVal(Arr(41, << 2, NSamples, 1 >>, "float64")),
    StrVal(P_x_npy) }

\* The loop of load_raw_data, lines 162-171: the file system load_data
\* leaves after the inputs from the k-th on.
RECURSIVE load_raw_data_files(_, _, _, _, _)
load_raw_data_files(f, inps, names, data_field, k) ==
  IF k > Len(inps) THEN f
  ELSE LET r == load_data(f, inps[k], data_field, names[k], "r")
       IN  IF r.err # NoErr THEN r.fs
           ELSE load_raw_data_files(r.fs, inps, names, data_field, k + 1)

\* No operation of the store is under way: the program is sequential, so an
\* operation of the second store runs between two operations of the first.
BetweenOperations == pc \in {"start", "open", "called", "failed"}

\* IO.__init__ of the second store, identifier OtherIdentifier, on the
\* store directory of the first.
OtherOpen ==
  /\ BetweenOperations
  /\ other.pc = "none"
  /\ \E inp \in OtherDescriptors :
       LET r == Resolve(fs, inp)
           n == Len(r.inputs)
           names == [i \in 1..n |->
                       raw_data_pattern(P_s, n, i - 1, OtherIdentifier)]
       IN  /\ fs' = load_raw_data_files(mkdir(fs, P_s), r.inputs, names, KeyX, 1)
           /\ other' = OtherStore("open", names)
  /\ UNCHANGED << pc, args, err, log, store, listing, loaded, method, history >>
  /\ UNCHANGED << weights, dataAttrs, training >>

\* delete_io_memmaps of the second store.
OtherTeardown ==
  /\ BetweenOperations
  /\ other.pc = "open"
  /\ fs' = delete_io_memmaps(fs, P_s, other.raw_data_filenames).fs
  /\ other' = OtherStore("closed", None)
  /\ UNCHANGED << pc, args, err, log, store, listing, loaded, method, history >>
  /\ UNCHANGED << weights, dataAttrs, training >>

NextShared ==
  \/ OpenBegin
  \/ LoadStep
  \/ ValidateStep
  \/ PrepareStep
  \/ Register
  \/ DeleteIoMemmapsCall
  \/ OtherOpen
  \/ OtherTeardown

\* The stores share a world whose MATLAB files are all of the legacy format.
InitShared == Init /\ fs \in { World(c, "v5") : c \in 1..MaxChan }

SpecShared == InitShared /\ [][NextShared]_vars

\* ------------------------------------------------ reinitialize_model_weights
\* The largest number of layers of a model, sub-models and their layers
\* counted.
MaxLayers == 3

\* A layer: its name, what it is (a single "layer", a "bidirectional" one,
\* or a "model": a Model or anything with a layers attribute), and the model
\* it is a layer of (0: the model passed by the caller).
Layer(name, kind, parent) == [name |-> name, kind |-> kind, parent |-> parent]

\* The models: layer i is named i and lies in the top model or in an
\* earlier layer that is a model.
Models ==
  UNION { { t \in [1..n -> { Layer(i, k, p) : i \in 1..n,
                                k \in {"layer", "bidirectional", "model"},
                                p \in 0..(n - 1) }] :
              \A i \in 1..n :
                /\ t[i].name = i
                /\ t[i].parent < i
                /\ t[i].parent # 0 => t[t[i].parent].kind = "model" } :
          n \in 1..MaxLayers }

\* model.layers of model m, in order.
RECURSIVE LayersOf(_, _, _)
LayersOf(t, m, from) ==
  IF from > Len(t) THEN << >>
  ELSE (IF t[from].parent = m THEN << from >> ELSE << >>)
       \o LayersOf(t, m, from + 1)

\* A call of reinitialize_model_weights(model, keep) and the layers its loop
\* has still to visit.
Frame(m, k, rest) == [model |-> m, keep |-> k, rest |-> rest]

\* reinitialize_layer_weights(layer): the call is recorded; part tells the
\* layer itself from the forward and backward layer of a Bidirectional.
reinitialize_layer_weights(calls, layer, part) == Append(calls, << layer, part >>)

\* The call under way, the layer its loop is at, and the call once the loop
\* has moved on.
Top == frames[Len(frames)]
Current == Head(Top.rest)
Advanced == [frames EXCEPT ![Len(frames)].rest = Tail(@)]

\* reinitialize_model_weights(model, keep) is called.
ReinitCall ==
  /\ rpc = "idle"
  /\ frames' = << Frame(0, keep, LayersOf(layers, 0, 1)) >>
  /\ rpc' = "running"
  /\ UNCHANGED << io, dataAttrs, training, layers, keep, reinitialized >>

\* Lines 202-204: a layer whose name is in keep is skipped.
SkipKept ==
  /\ rpc = "running"
  /\ Top.rest # << >>
  /\ layers[Current].name \in Top.keep
  /\ frames' = Advanced
  /\ UNCHANGED << io, dataAttrs, training, layers, keep, reinitialized, rpc >>

\* Lines 207-214, a single layer.
ReinitSingle ==
  /\ rpc = "running"
  /\ Top.rest # << >>
  /\ layers[Current].name \notin Top.keep
  /\ layers[Current].kind = "layer"
  /\ reinitialized' = reinitialize_layer_weights(reinitialized, Current, "layer")
  /\ frames' = Advanced
  /\ UNCHANGED << io, dataAttrs, training, layers, keep, rpc >>

\* Lines 210-212, a Bidirectional layer: its forward and backward layers.
ReinitBidirectional ==
  /\ rpc = "running"
  /\ Top.rest # << >>
  /\ layers[Current].name \notin Top.keep
  /\ layers[Current].kind = "bidirectional"
  /\ reinitialized' =
       reinitialize_layer_weights(
         reinitialize_layer_weights(reinitialized, Current, "forward"),
         Current, "backward")
  /\ frames' = Advanced
  /\ UNCHANGED << io, dataAttrs, training, layers, keep, rpc >>

\* Lines 215-218: reinitialize_model_weights(layer), keep left at its
\* default None, which lines 198-199 make the empty list.
Recurse ==
  /\ rpc = "running"
  /\ Top.rest # << >>
  /\ layers[Current].name \notin Top.keep
  /\ layers[Current].kind = "model"
  /\ frames' = Append(Advanced, Frame(Current, {}, LayersOf(layers, Current, 1)))
  /\ UNCHANGED << io, dataAttrs, training, layers, keep, reinitialized, rpc >>

\* The loop of a call is over: the call returns.
Return ==
  /\ rpc = "running"
  /\ Top.rest = << >>
  /\ frames' = SubSeq(frames, 1, Len(frames) - 1)
  /\ rpc' = IF Len(frames) = 1 THEN "done" ELSE "running"
  /\ UNCHANGED << io, dataAttrs, training, layers, keep, reinitialized >>

InitWeights ==
  /\ IOIdle
  /\ DataIdle
  /\ TrainingIdle
  /\ layers \in Models
  /\ keep \in SUBSET (1..Len(layers))
  /\ frames = << >>
  /\ reinitialized = << >>
  /\ rpc = "idle"

NextWeights ==
  \/ ReinitCall
  \/ SkipKept
  \/ ReinitSingle
  \/ ReinitBidirectional
  \/ Recurse
  \/ Return

SpecWeights == InitWeights /\ [][NextWeights]_vars

\* ------------------------------------------------------------------ Data
\* The most functions applied to raw_data to give time_series.
MaxOps == 3

\* The array a function of vrad.data.manipulation or vrad.utils.misc returns
\* for the array ts: ts with the function applied.
Applied(ts, fn) == Append(ts, fn)

\* A faulty variant of Data_pca: PCA is applied unless it was applied
\* before, or when forced.
Data_pca_unless_applied(ts, applied, force) ==
  IF ~applied \/ force THEN Applied(ts, "pca") ELSE ts

\* Data.pca(n_components, force): the time_series it leaves.
Data_pca(ts, applied, force) ==
  IF applied
  THEN IF ~force THEN Applied(ts, "pca") ELSE ts
  ELSE ts

\* The Data object is made.
DataMade == dcall.fn # ""

\* Data.__init__: time_series is a copy of raw_data, with time_axis_first
\* applied when it has two dimensions.
DataInit ==
  /\ dcall.fn = ""
  /\ \E two_dimensions \in BOOLEAN :
       time_series' = IF two_dimensions
                      THEN Applied(<< >>, "time_axis_first")
                      ELSE << >>
  /\ pca_applied' = FALSE
  /\ n_min' = NoNumber
  /\ n_max' = NoNumber
  /\ dcall' = DataCall("__init__", FALSE, << >>)
  /\ UNCHANGED << io, weights, training >>

\* data_limits(t_min, t_max)
DataLimits ==
  /\ DataMade
  /\ \E t_min \in {NoNumber, 0, 1}, t_max \in {NoNumber, 1, 2} :
       n_min' = t_min /\ n_max' = t_max
  /\ dcall' = DataCall("data_limits", FALSE, time_series)
  /\ UNCHANGED << io, weights, training, time_series, pca_applied >>

\* time_axis_first, trim_trials, make_continuous, standardize (with or
\* without its PCA step) and scale: time_series becomes what the function
\* returns.
DataManipulate ==
  /\ DataMade
  /\ Len(time_series) < MaxOps
  /\ \E fn \in {"time_axis_first", "trim_trials", "make_continuous",
                 "standardize", "standardize_do_pca", "scale"} :
       /\ time_series' = Applied(time_series, fn)
       /\ dcall' = DataCall(fn, FALSE, time_series)
  /\ UNCHANGED << io, weights, training, pca_applied, n_min, n_max >>

\* pca(n_components, force)
DataPca ==
  /\ DataMade
  /\ \E force \in BOOLEAN :
       /\ Len(Data_pca(time_series, pca_applied, force)) <= MaxOps
       /\ time_series' = Data_pca(time_series, pca_applied, force)
       /\ dcall' = DataCall("pca", force, time_series)
  /\ UNCHANGED << io, weights, training, pca_applied, n_min, n_max >>

InitData == IOIdle /\ WeightsIdle /\ DataIdle /\ TrainingIdle

NextData ==
  \/ DataInit
  \/ DataLimits
  \/ DataManipulate
  \/ DataPca

SpecData == InitData /\ [][NextData]_vars

\* ------------------------------------------------------------------ Trainer
\* The most epochs one call of train is given, and the most epochs a
\* trainer is trained for in all.
MaxEpochs == 3
MaxTrained == 5

\* Trainer.__init__, also run by AnnealingTrainer.__init__: loss_history
\* starts as [0.0], written 0 here; the mean loss of the k-th epoch trained
\* is written k.
TrainerInit ==
  /\ tpc = "none"
  /\ trainer' \in {"Trainer", "AnnealingTrainer"}
  /\ loss_history' = << 0 >>
  /\ n_epochs' = NoNumber
  /\ remaining' = 0
  /\ trained' = 0
  /\ tpc' = "idle"
  /\ UNCHANGED << io, weights, dataAttrs >>

\* train(dataset, n_epochs) is called: lines 69-70 and 227-228.
TrainBegin ==
  /\ tpc = "idle"
  /\ \E n \in 0..MaxEpochs :
       /\ trained + n <= MaxTrained
       /\ n_epochs' = n
       /\ remaining' = n
  /\ tpc' = "training"
  /\ UNCHANGED << io, weights, dataAttrs, trainer, loss_history, trained >>

\* One pass of the loop of train: train_epoch, lines 80-92.  It reads
\* self.loss_history[-1], an IndexError on an empty list, and appends the
\* mean loss of the epoch.
TrainEpoch ==
  /\ tpc = "training"
  /\ remaining > 0
  /\ IF loss_history = << >>
     THEN /\ tpc' = "failed"
          /\ UNCHANGED << loss_history, remaining, trained >>
     ELSE /\ loss_history' = Append(loss_history, trained + 1)
          /\ trained' = trained + 1
          /\ remaining' = remaining - 1
          /\ UNCHANGED tpc
  /\ UNCHANGED << io, weights, dataAttrs, trainer, n_epochs >>

\* The loop of Trainer.train is over: del self.loss_history[0], line 72, an
\* IndexError on an empty list.
TrainEnd ==
  /\ tpc = "training"
  /\ remaining = 0
  /\ trainer = "Trainer"
  /\ IF loss_history = << >>
     THEN tpc' = "failed" /\ UNCHANGED loss_history
     ELSE tpc' = "idle" /\ loss_history' = Tail(loss_history)
  /\ UNCHANGED << io, weights, dataAttrs, trainer, n_epochs, remaining, trained >>

\* The loop of AnnealingTrainer.train is over: the method returns,
\* lines 227-232.
AnnealingTrainEnd ==
  /\ tpc = "training"
  /\ remaining = 0
  /\ trainer = "AnnealingTrainer"
  /\ tpc' = "idle"
  /\ UNCHANGED << io, weights, dataAttrs, trainer, loss_history, n_epochs,
                  remaining, trained >>

InitTraining == IOIdle /\ WeightsIdle /\ DataIdle /\ TrainingIdle

NextTraining ==
  \/ TrainerInit
  \/ TrainBegin
  \/ TrainEpoch
  \/ TrainEnd
  \/ AnnealingTrainEnd

SpecTraining == InitTraining /\ [][NextTraining]_vars

\* ------------------------------------------------------------------ claims
\* The store is being, or has been, opened by IO.__init__, and no method
\* has been called on it since.
Opening == args.fn = "IO" /\ pc # "called"

\* load_raw_data has returned: every resolved input is ingested.
Ingested == Opening /\ "raw_data_memmaps" \in attrs

\* Some ingested array's trailing dimension differs from the first one's.
ChannelsDiffer(mm) ==
  \E i \in 1..Len(mm) : mm[i].shape[Len(mm[i].shape)] # mm[1].shape[Len(mm[1].shape)]

\* C1 (as amended): once every input is ingested and some subject's trailing
\* dimension differs from the first subject's, open has failed with the
\* ValueError "All inputs should have the same number of channels."; that
\* fixed text is the whole message.
C1_MismatchFails ==
  (Ingested /\ ChannelsDiffer(raw_data_memmaps))
    => (pc = "failed" /\ err = Exc("ValueError", ChannelMismatchMsg))

\* C1, witness: an open that failed on a channel mismatch of two subjects.
C1_Witness ==
  /\ Ingested
  /\ Len(raw_data_memmaps) = 2
  /\ ChannelsDiffer(raw_data_memmaps)
  /\ pc = "failed"

\* C1 as stated: the channel-mismatch error identifies the mismatched channel
\* counts, that is, its message holds every subject's channel count.
C1_ErrorListsCounts ==
  (Ingested /\ ChannelsDiffer(raw_data_memmaps))
    => /\ pc = "failed"
       /\ err.type = "ValueError"
       /\ \A i \in 1..Len(raw_data_memmaps) :
            Contains(err.msg,
                     Str(raw_data_memmaps[i].shape[Len(raw_data_memmaps[i].shape)]))

\* C2 as stated: once every input is ingested and all subjects have the same
\* channel count c, open does not fail, and the opened store has one subject
\* per resolved input and channel count c.
C2_EqualChannelsOpen ==
  (Ingested /\ ~ChannelsDiffer(raw_data_memmaps))
    => /\ pc # "failed"
       /\ pc = "open" =>
            /\ Len(subjects) = Len(inputs)
            /\ n_raw_data_channels =
                 raw_data_memmaps[1].shape[Len(raw_data_memmaps[1].shape)]

\* C3: the channel count and the subjects are registered only in a store
\* whose inputs are all ingested and whose channel counts agree, and after an
\* open that failed neither is registered.
C3_RegisterAfterValidate ==
  /\ (Opening /\ ({"n_raw_data_channels", "subjects"} \cap attrs # {}))
       => /\ pc = "open"
          /\ Ingested
          /\ Len(raw_data_memmaps) = Len(inputs)
          /\ ~ChannelsDiffer(raw_data_memmaps)
  /\ (Opening /\ pc \in {"load", "prepare", "register", "failed"})
       => /\ {"n_raw_data_channels", "subjects"} \cap attrs = {}
          /\ n_raw_data_channels = 0
          /\ subjects = << >>
  /\ (Opening /\ pc \in {"prepare", "register", "open"})
       => Len(raw_data_memmaps) = Len(inputs)

\* C3, witness: an open that failed in validation, nothing registered.
C3_Witness ==
  /\ Ingested
  /\ pc = "failed"
  /\ err = Exc("ValueError", ChannelMismatchMsg)
  /\ "subjects" \notin attrs

\* Input i of the open got a backing file written by this store: it is an
\* in-memory array or a .mat file.
WritesBacking(i) ==
  \/ inputs[i].kind = "array"
  \/ inputs[i].kind = "str" /\ EndsWith(inputs[i].path, MAT)

\* C4: validation runs only when every resolved input is ingested, and when
\* open has failed after the store directory was made, the directory and
\* the backing file of every input ingested before the failure still exist.
C4_NoRollback ==
  /\ Ingested => Len(raw_data_memmaps) = Len(inputs)
  /\ (Opening /\ pc = "failed" /\ "store_dir" \in attrs)
       => /\ exists(fs, args.store_dir)
          /\ fs[args.store_dir].kind = "dir"
          /\ \A i \in 1..Len(memmaps) :
               WritesBacking(i) =>
                 /\ exists(fs, filenames[i])
                 /\ fs[filenames[i]].kind = "npy"

\* C4, witness: an open that failed while loading its second input, the
\* first one's backing file written.
C4_Witness ==
  /\ Opening
  /\ pc = "failed"
  /\ "raw_data_memmaps" \notin attrs
  /\ Len(memmaps) = 1
  /\ WritesBacking(1)
  /\ exists(fs, filenames[1])

\* A directory with no entry whose extension is .npy or .mat.
NoDataFiles(f, v) ==
  /\ isdir(f, v)
  /\ \A name \in listdir(f, v.path) : splitext_ext(name) \notin {NPY, MAT}

\* The descriptors that resolve to zero subjects: the empty list, a directory
\* without data files, a list of such directories, and an array of rank 1 or
\* of rank 3 and more with leading length zero.
ZeroSubjects(f, v) ==
  \/ v.kind = "list" /\ v.items = << >>
  \/ v.kind = "str" /\ NoDataFiles(f, v)
  \/ /\ v.kind = "list"
     /\ v.items # << >>
     /\ \A i \in 1..Len(v.items) : NoDataFiles(f, v.items[i])
  \/ /\ v.kind = "array"
     /\ Len(v.arr.shape) \notin {0, 2}
     /\ v.arr.shape[1] = 0

IsEmptyInputError(e) ==
  e \in {Exc("ValueError", EmptyListMsg), Exc("ValueError", NoValidInputsMsg)}

\* No store came out of the call: no attribute was set and the store
\* directory was not made.
NoStore == pc = "failed" /\ attrs = {} /\ ~exists(fs, args.store_dir)

\* C5 (as amended): open fails with the invalid-kind ValueError for a
\* descriptor that is no str, array or list, and with an empty-input
\* ValueError for the empty list, a directory with no .npy/.mat file, a list
\* of such directories and an array of rank other than 2 with leading length
\* zero; no store is produced.
C5_InvalidAndEmptyInputs ==
  Opening =>
    /\ args.inputs.kind \notin {"str", "array", "list"}
         => (err = Exc("ValueError", InvalidKindMsg) /\ NoStore)
    /\ ZeroSubjects(fs, args.inputs) => (IsEmptyInputError(err) /\ NoStore)

\* C5, witness: the open of a list of two empty directories has failed.
C5_Witness ==
  /\ Opening
  /\ args.inputs = ListVal(<<StrVal(P_e), StrVal(P_e)>>)
  /\ err = Exc("ValueError", NoValidInputsMsg)
  /\ pc = "failed"

\* C5 as stated: an array with zero leading length, of any rank, is among
\* the inputs that fail with an empty-input error.
C5_ZeroLeadingArrayFails ==
  (/\ Opening
   /\ pc \in {"open", "failed"}
   /\ args.inputs.kind = "array"
   /\ Len(args.inputs.arr.shape) > 0
   /\ args.inputs.arr.shape[1] = 0)
    => (IsEmptyInputError(err) /\ NoStore)

\* What element it of a list stands for once directories are expanded: the
\* directory's .npy/.mat files in list_dir's order, or the element itself.
Segment(f, it) ==
  IF isdir(f, it)
  THEN StrVals(list_dir(f, it.path, KeepList(<<NPY, MAT>>)))
  ELSE <<it>>

\* The number of resolved inputs the first n elements of items stand for.
RECURSIVE Offset(_, _, _)
Offset(f, items, n) ==
  IF n = 0 THEN 0 ELSE Offset(f, items, n - 1) + Len(Segment(f, items[n]))

\* res is items with every directory replaced, in place, by its files.
IsInPlaceExpansion(f, items, res) ==
  /\ Len(res) = Offset(f, items, Len(items))
  /\ \A i \in 1..Len(items) :
       \A k \in 1..Len(Segment(f, items[i])) :
          res[Offset(f, items, i - 1) + k] = Segment(f, items[i])[k]

ListResolved ==
  Opening /\ args.inputs.kind = "list" /\ "inputs" \in attrs

\* C6 (as amended): for a list descriptor whose first element is a str,
\* every element that is a directory is replaced in place by the
\* directory's .npy/.mat files in lexicographic order and every other
\* element is kept, at every position; a list whose first element is not a
\* str is taken as it is, its directories are not expanded.
C6_ListResolution ==
  ListResolved =>
    IF args.inputs.items[1].kind = "str"
    THEN IsInPlaceExpansion(fs, args.inputs.items, inputs)
    ELSE inputs = args.inputs.items

\* C6, witness: a list of a file and then a directory, resolved to the file
\* and the directory's two data files.
C6_Witness ==
  /\ ListResolved
  /\ args.inputs.items = <<StrVal(P_x_npy), StrVal(P_d)>>
  /\ inputs = <<StrVal(P_x_npy), StrVal(Join(P_d, N_a_npy)),
                StrVal(Join(P_d, N_b_mat))>>

\* C6 as stated: directories of a list are expanded in place whatever the
\* kind of the list's first element.
C6_ExpandsWhateverFirst ==
  ListResolved => IsInPlaceExpansion(fs, args.inputs.items, inputs)

\* e is the extension of name: the text from the last dot on, which some
\* character other than a dot precedes; or empty when name has no such dot.
DottedTail(e, name) ==
  /\ e # << >>
  /\ EndsWith(name, e)
  /\ e[1] = "."
  /\ \A i \in 2..Len(e) : e[i] # "."
  /\ \E i \in 1..(Len(name) - Len(e)) : name[i] # "."

IsExtensionOf(e, name) ==
  \/ DottedTail(e, name)
  \/ e = << >> /\ \A k \in 1..Len(name) :
                     ~DottedTail(SubSeq(name, k, Len(name)), name)

Listed == args.fn = "list_dir" /\ pc = "returned"

\* The listing is made of the full paths of entries of the directory, in
\* strictly increasing order of entry name.
ListingSorted ==
  /\ \A i \in 1..Len(listing) :
       \E name \in listdir(fs, args.inputs.path) :
          listing[i] = args.inputs.path \o <<"/">> \o name
  /\ \A i \in 1..Len(listing) : \A j \in (i + 1)..Len(listing) :
       StrLess(listing[i], listing[j])

InListing(name) ==
  \E i \in 1..Len(listing) : listing[i] = args.inputs.path \o <<"/">> \o name

\* C7 (as amended): list_dir returns full paths in strict lexicographic
\* order of entry name; with a filter, exactly the entries whose extension
\* (the text from the last dot of the name, empty when only dots precede
\* it) equals, case-sensitively, one of the requested extensions; with no
\* filter, every entry.
C7_ListDir ==
  Listed =>
    /\ ListingSorted
    /\ \A name \in listdir(fs, args.inputs.path) :
         InListing(name) <=>
           \/ args.keep_ext.kind = "None"
           \/ \E i \in 1..Len(args.keep_ext.exts) :
                 IsExtensionOf(args.keep_ext.exts[i], name)

\* C7, witness: d listed with the filter [".npy", ".mat"]: a.npy and b.mat,
\* without A.NPY, c.txt and the file named .npy.
C7_Witness ==
  /\ Listed
  /\ args.keep_ext = KeepList(<<NPY, MAT>>)
  /\ listing = <<Join(P_d, N_a_npy), Join(P_d, N_b_mat)>>

\* C7 as stated: with a filter, exactly the entries whose name ends with one
\* of the requested extensions are returned.
C7_FilterBySuffix ==
  (Listed /\ args.keep_ext.kind # "None") =>
    \A name \in listdir(fs, args.inputs.path) :
       InListing(name) <=>
         \E i \in 1..Len(args.keep_ext.exts) :
            EndsWith(name, args.keep_ext.exts[i])

\* The source of the load_data call that the step from this state makes, or
\* has just made (primed by the formulas below): the data argument of a
\* direct call, or the input the loop of load_raw_data is at.
DirectLoad == args.fn = "load_data"

\* C8: a load_data call on a str source that does not exist fails with
\* FileNotFoundError carrying the path, whatever the extension of the path,
\* and leaves the file system as it was.  Stated of the direct calls and of
\* the calls load_raw_data makes.
C8_MissingPath ==
  [][/\ (/\ pc = "start"
         /\ args'.fn = "load_data"
         /\ args'.inputs.kind = "str"
         /\ ~exists(fs, args'.inputs.path))
          => /\ pc' = "failed"
             /\ err' = Exc("FileNotFoundError", args'.inputs.path)
             /\ fs' = fs
     /\ (/\ pc = "load"
         /\ Len(memmaps) < Len(inputs)
         /\ inputs[Len(memmaps) + 1].kind = "str"
         /\ ~exists(fs, inputs[Len(memmaps) + 1].path))
          => /\ pc' = "failed"
             /\ err' = Exc("FileNotFoundError", inputs[Len(memmaps) + 1].path)
             /\ fs' = fs]_vars

\* C8, witness: load_data("m.txt") has failed with FileNotFoundError: the
\* path is missing and its extension is not a recognised one.
C8_Witness ==
  /\ DirectLoad
  /\ args.inputs = StrVal(P_m_txt)
  /\ pc = "failed"
  /\ err = Exc("FileNotFoundError", P_m_txt)

\* The last component of a path.
BaseName(path) == SubSeq(path, RFind(path, "/") + 1, Len(path))

\* The extension of the path is .npy or .mat.
RecognisedExtension(path) ==
  DottedTail(NPY, BaseName(path)) \/ DottedTail(MAT, BaseName(path))

\* C9 (as amended): a load_data call on an existing path whose extension is
\* neither .npy nor .mat fails with the ValueError "Data file must be .npy
\* or .mat."; that fixed text is the whole message, and the file system is
\* left as it was.  Stated of the direct calls and of the calls
\* load_raw_data makes.
C9_UnsupportedFormat ==
  [][/\ (/\ pc = "start"
         /\ args'.fn = "load_data"
         /\ args'.inputs.kind = "str"
         /\ exists(fs, args'.inputs.path)
         /\ ~RecognisedExtension(args'.inputs.path))
          => /\ pc' = "failed"
             /\ err' = Exc("ValueError", UnsupportedMsg)
             /\ fs' = fs
     /\ (/\ pc = "load"
         /\ Len(memmaps) < Len(inputs)
         /\ inputs[Len(memmaps) + 1].kind = "str"
         /\ exists(fs, inputs[Len(memmaps) + 1].path)
         /\ ~RecognisedExtension(inputs[Len(memmaps) + 1].path))
          => /\ pc' = "failed"
             /\ err' = Exc("ValueError", UnsupportedMsg)
             /\ fs' = fs]_vars

\* C9, witness: load_data("z.txt"), an existing file, has failed with the
\* ValueError.
C9_Witness ==
  /\ DirectLoad
  /\ args.inputs = StrVal(P_z_txt)
  /\ pc = "failed"
  /\ err.type = "ValueError"

\* C9 as stated: the unsupported-format error names the offending
\* extension, that is, its message holds the extension of the path.
C9_ErrorNamesExtension ==
  (/\ DirectLoad
   /\ pc = "failed"
   /\ args.inputs.kind = "str"
   /\ err = Exc("ValueError", UnsupportedMsg))
    => Contains(err.msg, splitext_ext(args.inputs.path))

\* The MATLAB file the latest load_data call decoded.
DecodedFile ==
  IF DirectLoad THEN args.inputs.path
  ELSE IF pc = "failed" /\ "raw_data_memmaps" \notin attrs
  THEN inputs[Len(memmaps) + 1].path
  ELSE inputs[Len(memmaps)].path

\* C10 (as amended): for a MATLAB file, scipy.io.loadmat, the decoder of the
\* legacy formats, is attempted first, and mat73.loadmat, the decoder of the
\* modern v7.3 format, is attempted only after it, and only for a file on
\* which scipy.io.loadmat signals "format not supported" (a v7.3 file).
C10_DecoderOrder ==
  log # << >> =>
    /\ log[1] = "scipy.io.loadmat"
    /\ \A i \in 2..Len(log) : log[i] # "scipy.io.loadmat"
    /\ \A i \in 1..Len(log) :
         log[i] = "mat73.loadmat" =>
           /\ i = 2
           /\ fs[DecodedFile].ver \in {"v73", "v73bad"}
    /\ fs[DecodedFile].ver \in {"v73", "v73bad"} =>
         (Len(log) >= 2 /\ log[2] = "mat73.loadmat")

\* C10, witness: a v7.3 file was decoded by the fallback, scipy.io.loadmat
\* first and mat73.loadmat second, and the load succeeded.
C10_Witness ==
  /\ log = <<"scipy.io.loadmat", "mat73.loadmat">>
  /\ pc = "returned"
  /\ fs[DecodedFile].ver = "v73"

\* C10 as stated: the modern-format decoder (mat73.loadmat) is attempted
\* first, the legacy-format decoder (scipy.io.loadmat) only after it.
C10_ModernFirst ==
  log # << >> =>
    /\ log[1] = "mat73.loadmat"
    /\ \A i \in 1..Len(log) : log[i] = "scipy.io.loadmat" => i = 2

\* The latest load_data call raised: a direct call, or the call the loop of
\* load_raw_data was at when IO.__init__ failed.
LoadFailed == pc = "failed" /\ (DirectLoad \/ "raw_data_memmaps" \notin attrs)

\* How often the latest load_data called the decoder or logger named.
Count(name) == Cardinality({ i \in 1..Len(log) : log[i] = name })

\* C11: for one MATLAB file scipy.io.loadmat is attempted once; mat73.loadmat
\* is attempted at most once, and exactly when scipy.io.loadmat raised
\* NotImplementedError (which it does on the v7.3 generations); any other
\* failure of scipy.io.loadmat (a file that is no MATLAB file) and a failure
\* of mat73.loadmat reach the caller as they are, and so does the KeyError of
\* a missing field, after which no decoder is attempted again.
C11_FallbackOnce ==
  log # << >> =>
    LET ver == fs[DecodedFile].ver
    IN  /\ Count("scipy.io.loadmat") = 1
        /\ log[1] = "scipy.io.loadmat"
        /\ Count("mat73.loadmat") <= 1
        /\ Count("mat73.loadmat") = 1 <=> ver \in {"v73", "v73bad"}
        /\ ver = "bad" =>
             /\ LoadFailed
             /\ err.type = "ValueError"
             /\ log = <<"scipy.io.loadmat">>
        /\ ver = "v73bad" =>
             /\ LoadFailed
             /\ err.type = "OSError"
             /\ log = <<"scipy.io.loadmat", "mat73.loadmat">>
        /\ (LoadFailed /\ err.type = "KeyError") =>
             /\ err.msg = MissingFieldMsg(args.data_field)
             /\ ver \in {"v5", "v73"}
             /\ log = IF ver = "v5" THEN <<"scipy.io.loadmat">>
                      ELSE <<"scipy.io.loadmat", "mat73.loadmat">>

\* C11, witness: on a v7.3 file with unreadable content both decoders were
\* attempted, once each, and the failure of mat73.loadmat reached the caller.
C11_Witness ==
  /\ LoadFailed
  /\ err.type = "OSError"
  /\ log = <<"scipy.io.loadmat", "mat73.loadmat">>
  /\ fs[DecodedFile].ver = "v73bad"

\* The array the latest load_data call returned.
LoadedArray == IF DirectLoad THEN loaded ELSE memmaps[Len(memmaps)]

\* C12: once a MATLAB file is decoded, load_matlab takes the data of key 'D'
\* and logs a warning whenever 'D' is among the variables, also when the
\* requested field is among them too; without 'D' it returns the requested
\* field, and raises the KeyError "field '<field>' missing from MATLAB file."
\* when the field is not among the variables.
C12_ContainerPrecedence ==
  (log # << >> /\ fs[DecodedFile].ver \in {"v5", "v73"}) =>
    LET mat == fs[DecodedFile].vars
        field == args.data_field
    IN  IF KeyD \in DOMAIN mat
        THEN /\ log[Len(log)] = "_logger.warning"
             /\ Count("_logger.warning") = 1
             /\ err.type # "KeyError"
             /\ ~LoadFailed => LoadedArray.tag = mat[KeyD].tag
        ELSE IF field \in DOMAIN mat
        THEN /\ Count("_logger.warning") = 0
             /\ err.type # "KeyError"
             /\ ~LoadFailed => LoadedArray.tag = mat[field].tag
        ELSE /\ Count("_logger.warning") = 0
             /\ LoadFailed
             /\ err = Exc("KeyError", MissingFieldMsg(field))

\* C12, witness: load_data on k.mat, which holds 'D' and 'X', asked for 'X',
\* returned the data of 'D' and logged the warning.
C12_Witness ==
  /\ DirectLoad
  /\ pc = "returned"
  /\ args.inputs = StrVal(P_k_mat)
  /\ args.data_field = KeyX
  /\ loaded.tag = fs[P_k_mat].vars[KeyD].tag
  /\ loaded.tag # fs[P_k_mat].vars[KeyX].tag
  /\ "_logger.warning" \in { log[i] : i \in 1..Len(log) }

\* IO.__init__ has returned the store, and no method has been called on it.
Opened == Opening /\ pc = "open"

\* C13: every subject array of an opened store is float32, whatever the
\* input was (an array, a .npy path, a .mat path).
C13_SubjectsFloat32 ==
  Opened => \A i \in 1..Len(subjects) : subjects[i].dtype = "float32"

\* The loop of load_raw_data is at input k, which is the path of a .npy file.
AtNpyInput(k) ==
  /\ args.fn = "IO"
  /\ pc = "load"
  /\ k = Len(memmaps) + 1
  /\ k <= Len(inputs)
  /\ inputs[k].kind = "str"
  /\ DottedTail(NPY, BaseName(inputs[k].path))

\* C14 (as amended): the list of backing paths the store records has one
\* entry per resolved input, in input order, each a path inside the store
\* directory, and all different.  Ingesting an array or a .mat file
\* creates the file of its entry and memory-maps it; ingesting an existing
\* .npy file creates no file and copies nothing: the file system is left as
\* it was and the array is memory-mapped from the input's own path.
C14_BackingPaths ==
  [][/\ Ingested' =>
          /\ Len(raw_data_filenames') = Len(inputs')
          /\ \A i \in 1..Len(inputs') :
               /\ raw_data_filenames'[i] # None
               /\ IsUnder(raw_data_filenames'[i], args'.store_dir)
               /\ \A j \in 1..Len(inputs') :
                    raw_data_filenames'[i] = raw_data_filenames'[j] => i = j
               /\ WritesBacking(i)' =>
                    /\ exists(fs', raw_data_filenames'[i])
                    /\ raw_data_memmaps'[i].file = raw_data_filenames'[i]
               /\ ~WritesBacking(i)' =>
                    raw_data_memmaps'[i].file = inputs'[i].path
     /\ \A k \in 1..Len(inputs) :
          (AtNpyInput(k) /\ pc' = "load") =>
             /\ fs' = fs
             /\ memmaps'[k].file = inputs[k].path
             /\ memmaps'[k].tag = fs[inputs[k].path].arr.tag]_vars

\* C14, witness: a store opened on the list [array, "x.npy"]: two backing
\* paths are recorded, the first one's file was created, the second one's
\* was not, and the second subject is memory-mapped from x.npy.
C14_Witness ==
  /\ Opened
  /\ Len(inputs) = 2
  /\ inputs[1].kind = "array"
  /\ inputs[2] = StrVal(P_x_npy)
  /\ Len(raw_data_filenames) = 2
  /\ exists(fs, raw_data_filenames[1])
  /\ ~exists(fs, raw_data_filenames[2])
  /\ subjects[2].file = P_x_npy

\* C14 as stated: the recorded list holds only paths of files the store
\* created: the entry of an input that was an existing .npy file is None.
C14_ListsOnlyCreated ==
  Opened =>
    \A i \in 1..Len(raw_data_filenames) :
       raw_data_filenames[i] = None \/ exists(fs, raw_data_filenames[i])

\* The step is a call of delete_io_memmaps, or of delete_dir, on the store.
TeardownStep ==
  pc \in {"open", "called"} /\ pc' = "called" /\ call'.fn = "delete_io_memmaps"
DeleteDirStep ==
  pc \in {"open", "called"} /\ pc' = "called" /\ call'.fn = "delete_dir"

\* The paths the store records as its backing files.
Owned == { raw_data_filenames[i] : i \in 1..Len(raw_data_filenames) }

\* The store directory holds an entry that is not a recorded backing file.
HoldsOtherFiles ==
  \E q \in DOMAIN fs : IsUnder(q, args.store_dir) /\ q \notin Owned

\* C15: when delete_io_memmaps returns, no recorded backing file exists;
\* unlink was called for each of them and a missing one raised nothing;
\* raw_data_memmaps and raw_data_filenames are None; and the store directory
\* is gone exactly when it held nothing but the backing files (it stays when
\* another entry is left in it, and it is not made when it did not exist).
C15_Teardown ==
  [][TeardownStep =>
       /\ err' = NoErr
       /\ \A q \in Owned : ~exists(fs', q)
       /\ unlinked' = raw_data_filenames
       /\ raw_data_memmaps' = None
       /\ raw_data_filenames' = None
       /\ exists(fs', args.store_dir) <=>
            (exists(fs, args.store_dir) /\ HoldsOtherFiles)]_vars

\* C15, witness: the store opened on [array, "x.npy"] is torn down: both
\* recorded paths were unlinked, the second of which never existed, the
\* references are None and the store directory, then empty, is gone.
C15_Witness ==
  /\ pc = "called"
  /\ call.fn = "delete_io_memmaps"
  /\ Len(inputs) = 2
  /\ inputs[1].kind = "array"
  /\ inputs[2] = StrVal(P_x_npy)
  /\ Len(unlinked) = 2
  /\ err = NoErr
  /\ raw_data_memmaps = None
  /\ raw_data_filenames = None
  /\ ~exists(fs, args.store_dir)

\* C16: delete_io_memmaps leaves every path other than the recorded backing
\* files and the store directory as it was, makes nothing, and keeps the
\* directory when an entry that is no recorded backing file is in it;
\* delete_dir removes the store directory and everything in it, whatever it
\* holds, leaves every other path as it was, and changes nothing when the
\* directory does not exist.
C16_TeardownFrame ==
  [][/\ TeardownStep =>
          /\ \A q \in DOMAIN fs :
               (q \notin Owned /\ q # args.store_dir) =>
                  (exists(fs', q) /\ fs'[q] = fs[q])
          /\ DOMAIN fs' \subseteq DOMAIN fs
          /\ HoldsOtherFiles => exists(fs', args.store_dir)
     /\ DeleteDirStep =>
          /\ err' = NoErr
          /\ \A q \in DOMAIN fs' :
               q # args.store_dir /\ ~IsUnder(q, args.store_dir)
          /\ \A q \in DOMAIN fs :
               (q # args.store_dir /\ ~IsUnder(q, args.store_dir)) =>
                  (exists(fs', q) /\ fs'[q] = fs[q])
          /\ ~exists(fs, args.store_dir) => fs' = fs]_vars

\* C16, witness: the prepared store opened on p was saved into its store
\* directory and then torn down: the backing file of p/b.mat is gone, the
\* preparation pickle and the directory are still there.
C16_Witness ==
  /\ pc = "called"
  /\ call.fn = "delete_io_memmaps"
  /\ args.inputs = StrVal(P_p)
  /\ unlinked # << >>
  /\ ~exists(fs, unlinked[1])
  /\ exists(fs, args.store_dir)
  /\ exists(fs, Join(args.store_dir, PREPARATION_PKL))
  /\ fs[Join(args.store_dir, PREPARATION_PKL)].kind = "pkl"

\* C17: a call of delete_io_memmaps on a store that delete_io_memmaps was
\* called on before, with or without calls of delete_dir and save between
\* and before them, raises nothing, calls unlink for no path and leaves the
\* file system as it is.
C17_Idempotent ==
  [][(TeardownStep /\ pc = "called" /\ raw_data_memmaps = None) =>
       /\ err' = NoErr
       /\ unlinked' = << >>
       /\ fs' = fs
       /\ raw_data_memmaps' = None
       /\ raw_data_filenames' = None]_vars

\* C17, witness: delete_io_memmaps has returned from a second call: it
\* called unlink for nothing (a first call unlinks every recorded path).
C17_Witness ==
  /\ pc = "called"
  /\ call.fn = "delete_io_memmaps"
  /\ unlinked = << >>
  /\ raw_data_memmaps = None
  /\ err = NoErr

\* The shape of input i as it was passed in or as it is stored in its file.
SourceShape(i) ==
  IF inputs[i].kind = "array" THEN inputs[i].arr.shape
  ELSE IF DottedTail(MAT, BaseName(inputs[i].path))
  THEN LET mat == fs[inputs[i].path].vars
       IN  IF KeyD \in DOMAIN mat THEN mat[KeyD].shape
           ELSE mat[args.data_field].shape
  ELSE fs[inputs[i].path].arr.shape

\* The number of channels of input i: its second dimension when the time
\* axis is first, its first dimension otherwise.
SourceChannels(i) ==
  IF args.time_axis_first THEN SourceShape(i)[2] ELSE SourceShape(i)[1]

\* C18: in a store opened with time_axis_first=False every subject array is
\* its (channels, samples) input transposed to (samples, channels); with
\* time_axis_first=True every subject array has the shape of its input; the
\* registered channel count is the trailing dimension of the arrays as held,
\* the same for all of them, and the channel validation fails only when
\* these trailing dimensions differ.
C18_Orientation ==
  /\ Opened =>
       /\ \A i \in 1..Len(subjects) :
            /\ Len(SourceShape(i)) = 2
            /\ subjects[i].shape =
                 IF args.time_axis_first THEN SourceShape(i)
                 ELSE << SourceShape(i)[2], SourceShape(i)[1] >>
            /\ subjects[i].shape[2] = n_raw_data_channels
       /\ n_raw_data_channels = SourceChannels(1)
  /\ (Ingested /\ err = Exc("ValueError", ChannelMismatchMsg)) =>
       \E i \in 1..Len(inputs) : SourceChannels(i) # SourceChannels(1)

\* C18, witness: a store opened with time_axis_first=False on two arrays of
\* NSamples rows and of one and two columns: the subjects are held as
\* (1, NSamples) and (2, NSamples) and NSamples channels are registered.
C18_Witness ==
  /\ Opened
  /\ ~args.time_axis_first
  /\ Len(subjects) = 2
  /\ subjects[1].shape = << 1, NSamples >>
  /\ subjects[2].shape = << 2, NSamples >>
  /\ n_raw_data_channels = NSamples

\* C19: an open of a directory that holds no file named preparation.pkl,
\* whatever else it holds and whatever it is called, gets through
\* load_preparation without an exception and leaves the store unprepared.
C19_AbsentRecord ==
  (/\ Ingested
   /\ pc \in {"register", "open", "failed"}
   /\ ~ChannelsDiffer(raw_data_memmaps)
   /\ isdir(fs, args.inputs)
   /\ ~exists(fs, Join(args.inputs.path, PREPARATION_PKL)))
    => /\ pc # "failed"
       /\ "prepared" \notin attrs
       /\ prep = NoStorePrep

\* The step is a call of save on a prepared store.
SavePreparedStep ==
  /\ pc \in {"open", "called"}
  /\ pc' = "called"
  /\ call'.fn = "save"
  /\ "prepared" \in attrs

\* C20 (as amended): save writes the embedding width and the component
\* matrix the store holds into preparation.pkl of the output directory, and
\* a store opened on a directory with a preparation.pkl holds the embedding
\* width and the component matrix of that file, and as its reduced channel
\* count the second dimension of the matrix: a record of width w and a
\* matrix of shape (original_channels, k) restores w and k.
C20_RecordRoundTrip ==
  [][/\ SavePreparedStep =>
          LET file == Join(call'.output_dir, PREPARATION_PKL)
          IN  /\ exists(fs', file)
              /\ fs'[file].kind = "pkl"
              /\ fs'[file].prep.n_embeddings = prep.n_embeddings
              /\ fs'[file].prep.pca_components = prep.pca_components
     /\ (Opening' /\ "prepared" \in attrs') =>
          LET rec == fs'[Join(args'.inputs.path, PREPARATION_PKL)].prep
          IN  /\ prep'.n_embeddings = rec.n_embeddings
              /\ prep'.pca_components = rec.pca_components
              /\ Len(rec.pca_components.shape) = 2
              /\ prep'.n_pca_components = rec.pca_components.shape[2]]_vars

\* C20, witness: the store opened on the directory o, to which the prepared
\* store of p was saved, holds p's embedding width 3 and component matrix
\* of shape (2, 1), and reduced channel count 1.
C20_Witness ==
  /\ Opened
  /\ args.inputs = StrVal(P_o)
  /\ "prepared" \in attrs
  /\ prep.n_embeddings = fs[Join(P_p, PREPARATION_PKL)].prep.n_embeddings
  /\ prep.pca_components.shape = << 2, 1 >>
  /\ prep.n_pca_components = 1

\* C20 as stated: the reduced channel count restored is the first dimension
\* of the component matrix (shape (k, original_channels) restores k).
C20_FirstDimension ==
  (Opening /\ "prepared" \in attrs) =>
    prep.n_pca_components = prep.pca_components.shape[1]

\* ------------------------------------------------------------------ C21
\* The store is being opened, or is open, on a directory save was called
\* with.
Reopening ==
  /\ Opening
  /\ args.inputs.kind = "str"
  /\ args.inputs.path \in OutputDirs

\* The .npy and .mat files the directory dir held when the open began.
DataFilesBefore(dir) == list_dir(before, dir, KeepList(<<NPY, MAT>>))

\* Every data file the reopened directory held is one the save wrote.
OnlySavedFiles ==
  LET dir == args.inputs.path
      files == DataFilesBefore(dir)
  IN  \A k \in 1..Len(files) :
        \E j \in 1..Len(saved.subjects) :
          files[k] = subject_filename(dir, j - 1)

\* The reopened store has the subject count and the channel count of the
\* saved one, and its preparation when the saved one was prepared.
SameAsSaved ==
  /\ Len(subjects) = Len(saved.subjects)
  /\ n_raw_data_channels = saved.n_raw_data_channels
  /\ saved.prepared =>
       /\ "prepared" \in attrs
       /\ prep.n_embeddings = saved.prep.n_embeddings
       /\ prep.pca_components.shape = saved.prep.pca_components.shape

SaveStep ==
  /\ pc \in {"open", "called"}
  /\ pc' = "called"
  /\ call'.fn = "save"

\* The files save(dir) is to write for a store of n subjects.
SubjectFiles(dir, n) == { subject_filename(dir, i) : i \in 0..(n - 1) }

PreparedDirectory ==
  /\ isdir(fs, args.inputs)
  /\ exists(fs, Join(args.inputs.path, PREPARATION_PKL))

\* C23: a store that has just been opened is prepared if and only if its
\* input descriptor is a single directory path with a preparation.pkl in
\* it; opened on an array, a single file path, a directory without
\* preparation.pkl or any list, also one that names a prepared directory, it
\* is raw.
C23_InitialState ==
  Opened => ("prepared" \in attrs <=> PreparedDirectory)

\* C23, witness: the store opened on the list [p], p a directory with a
\* preparation.pkl, is raw.
C23_Witness ==
  /\ Opened
  /\ args.inputs = ListVal(<< StrVal(P_p) >>)
  /\ exists(fs, Join(P_p, PREPARATION_PKL))
  /\ "prepared" \notin attrs

\* ------------------------------------------------------------------ C27
\* The files, directories apart, that existed when the open of the store
\* began and still exist.
ForeignFiles ==
  { q \in DOMAIN before \cap DOMAIN fs : fs[q].kind # "dir" }

\* C27: delete_io_memmaps deletes no file the store did not create: every
\* file that existed before the open, also a .npy input that lies in the
\* store directory under the name raw_data_<index>_<store-id>.npy, exists
\* after the call.
C27_KeepsForeignFiles ==
  [][TeardownStep => \A q \in ForeignFiles : exists(fs', q)]_vars

\* ------------------------------------------------------------------ C28
\* delete_io_memmaps was the latest call on the store.
TornDown == pc = "called" /\ call.fn = "delete_io_memmaps"

\* Subject i is memory-mapped from a file that no longer exists.
Dangling(i) == subjects[i].file # None /\ ~exists(fs, subjects[i].file)

\* C28: after delete_io_memmaps the store holds no array reference to a
\* deleted backing file: raw_data_memmaps is cleared and no subject is
\* memory-mapped from a file that was removed.
C28_NoDanglingSubject ==
  TornDown =>
    /\ raw_data_memmaps = None
    /\ \A i \in 1..Len(subjects) : ~Dangling(i)

\* ------------------------------------------------------------------ C29
\* The reopened directory held nothing but what the save wrote: it was
\* empty, or absent, when save was called.
SavedIntoEmpty ==
  LET dir == args.inputs.path
  IN  \A q \in DOMAIN before :
        IsUnder(q, dir) =>
          q \in SubjectFiles(dir, Len(saved.subjects))
                  \cup {Join(dir, PREPARATION_PKL)}

\* C29: after save(dir) into an empty directory and open(dir), subject i of
\* the reopened store is the array that was subject i of the saved store,
\* for every i and every subject count, also above 10.
C29_SubjectOrder ==
  (Opened /\ Reopening /\ SavedIntoEmpty) =>
    /\ Len(subjects) = Len(saved.subjects)
    /\ \A i \in 1..Len(subjects) : subjects[i].tag = saved.subjects[i].tag

\* ------------------------------------------------------------------ C24
\* The number of decimal digits of n, for n below 1000.
Digits(n) == IF n < 10 THEN 1 ELSE IF n < 100 THEN 2 ELSE 3

\* The number a string of decimal digits denotes.
RECURSIVE DecimalValue(_)
DecimalValue(s) ==
  IF s = << >> THEN 0
  ELSE 10 * DecimalValue(SubSeq(s, 1, Len(s) - 1))
       + (CHOOSE d \in 0..9 : Str(d) = << s[Len(s)] >>)

RawDataPrefix == Join(P_s, << "r", "a", "w", "_", "d", "a", "t", "a", "_" >>)

\* name is <store directory>/raw_data_<index>_<id>.npy with index written
\* in exactly width digits.
IsBackingName(name, index, width, id) ==
  LET from == Len(RawDataPrefix) + 1
      tail == <<"_">> \o Str(id) \o NPY
  IN  /\ Len(name) = Len(RawDataPrefix) + width + Len(tail)
      /\ SubSeq(name, 1, Len(RawDataPrefix)) = RawDataPrefix
      /\ \A k \in from..(from + width - 1) :
           name[k] \in {"0", "1", "2", "3", "4", "5", "6", "7", "8", "9"}
      /\ DecimalValue(SubSeq(name, from, from + width - 1)) = index
      /\ SubSeq(name, from + width, Len(name)) = tail

\* The n inputs of a store of identifier id have n pairwise distinct
\* backing paths, index i zero-padded to the digits of n.
CollisionFree(names, id) ==
  /\ \A i \in 1..Len(names) :
       IsBackingName(names[i], i - 1, Digits(Len(names)), id)
  /\ \A i \in 1..Len(names) : \A j \in 1..Len(names) :
       i # j => names[i] # names[j]

\* The step is a call of delete_io_memmaps on the second store.
OtherTeardownStep == other.pc = "open" /\ other'.pc = "closed"

\* The files among names are in f2 what they are in f1.
Kept(f1, f2, names) ==
  \A k \in 1..Len(names) :
    exists(f1, names[k]) => exists(f2, names[k]) /\ f2[names[k]] = f1[names[k]]

\* C24: within one store the n inputs get n pairwise distinct paths
\* raw_data_<index>_<store-id>.npy, the index zero-padded to the digit count
\* of n; and of two stores with different identifiers that share a store
\* directory, however their opens and delete_io_memmaps calls interleave,
\* the teardown of one leaves every backing file of the other in place and
\* unaltered.
C24_CollisionFree ==
  [][/\ Len(filenames') = Len(inputs') /\ CollisionFree(filenames', Identifier)
     /\ other'.pc = "open" =>
          CollisionFree(other'.raw_data_filenames, OtherIdentifier)
     /\ (TeardownStep /\ other' = other) =>
          Kept(fs, fs', other.raw_data_filenames)
     /\ OtherTeardownStep => Kept(fs, fs', filenames)]_vars

\* C24, witness: the store of 11 subjects, with backing paths
\* raw_data_00_7.npy .. raw_data_10_7.npy, was torn down while the second
\* store was open on two subjects, and both backing files of the second
\* store exist.
C24_Witness ==
  /\ TornDown
  /\ Len(unlinked) = ManySubjects
  /\ other.pc = "open"
  /\ Len(other.raw_data_filenames) = 2
  /\ \A k \in 1..2 : exists(fs, other.raw_data_filenames[k])
  /\ \A k \in 1..ManySubjects : ~exists(fs, unlinked[k])

\* ------------------------------------------------------------------ C25
\* How often reinitialize_layer_weights was called on the part of layer i.
Reinits(i, part) ==
  Cardinality({ k \in 1..Len(reinitialized) : reinitialized[k] = << i, part >> })

\* Layer i is named in keep, or lies in a sub-model that is.
RECURSIVE UnderKeep(_)
UnderKeep(i) ==
  \/ layers[i].name \in keep
  \/ layers[i].parent # 0 /\ UnderKeep(layers[i].parent)

\* C25: when reinitialize_model_weights(model, keep) has returned, no layer
\* whose name is in keep was re-initialized, at whatever depth of sub-models
\* it lies (nor a layer of a sub-model named in keep), and every other leaf
\* layer was re-initialized exactly once: a Bidirectional layer in its
\* forward and in its backward layer.
C25_KeepRespected ==
  rpc = "done" =>
    \A i \in 1..Len(layers) :
      IF UnderKeep(i)
      THEN \A k \in 1..Len(reinitialized) : reinitialized[k][1] # i
      ELSE CASE layers[i].kind = "layer" -> Reinits(i, "layer") = 1
             [] layers[i].kind = "bidirectional" ->
                  Reinits(i, "forward") = 1 /\ Reinits(i, "backward") = 1
             [] OTHER -> TRUE

\* ------------------------------------------------------------------ C26
\* C26: Data.pca replaces time_series by its PCA projection only when
\* pca_applied is True and force is False; no Data operation sets
\* pca_applied to True, so in every state a sequence of Data operations
\* reaches pca_applied is False, and a call of pca leaves time_series as it
\* was.
C26_PcaNeverApplies ==
  /\ \A applied \in BOOLEAN, force \in BOOLEAN :
       Data_pca(time_series, applied, force) # time_series
         <=> (applied /\ ~force)
  /\ pca_applied = FALSE
  /\ dcall.fn = "pca" => time_series = dcall.was

\* C26, witness: pca was called, without force, on data that had been
\* scaled and standardized, and time_series is what it was.
C26_Witness ==
  /\ dcall = DataCall("pca", FALSE, << "scale", "standardize" >>)
  /\ time_series = << "scale", "standardize" >>
  /\ pca_applied = FALSE

\* ------------------------------------------------------------------ C30
\* C30: after any sequence of train calls on a Trainer or an
\* AnnealingTrainer, no call fails and loss_history holds exactly one entry
\* per epoch trained, in training order: the mean losses of epochs
\* 1 .. n1 + ... + nk, no placeholder among them and none of them removed.
C30_OneEntryPerEpoch ==
  /\ tpc # "failed"
  /\ (tpc = "idle" /\ n_epochs # NoNumber) =>
       loss_history = [k \in 1..trained |-> k]

====
